---- MODULE Spec2Model ----
(***************************************************************************)
(* Model of the deterministic Figma -> UITree -> JSX pipeline.             *)
(*                                                                         *)
(*   parser    : src/unnamed/part_007, lines 1-1304 (ui-tree.parser.ts)    *)
(*   generator : src/unnamed/part_004, lines 236-455 (code-generator.ts)   *)
(*   map       : src/unnamed/part_004, lines 659-1158 (component-map.ts)   *)
(*   driver    : src/unnamed/part_002 (index.ts)                           *)
(*                                                                         *)
(* Strings are sequences of one-character strings, so that indexOf, slice, *)
(* trim, the regular expressions and the escaping are computed and not     *)
(* assumed.  Numbers that the source keeps as floats in [0,1] (opacity,    *)
(* colour channels) are kept in hundredths.                                *)
(***************************************************************************)
EXTENDS Integers, Sequences, FiniteSets, TLC

VARIABLES
    input,          \* the parsed input.json handed to the core (figmaData)
    pc,             \* position of main(): idle, loaded, parsed, saved, generated, done, failed
    uiTree,         \* result of generateUITree (NoTree before it returned)
    code,           \* result of generateCode (<<>> before it returned)
    error,          \* the error main() ended with ("" when none)
    outputJson,     \* content of output.json on disk
    outputTsx,      \* content of output.tsx on disk
    written,        \* the files the current run has written
    usedComponents, \* the Set generateCode allocates for library imports
    rnImports,      \* the Set generateCode allocates for react-native imports
    remembered      \* one earlier completed run: [doc, tree, code], kept for comparison

vars == <<input, pc, uiTree, code, error, outputJson, outputTsx, written,
          usedComponents, rnImports, remembered>>

-----------------------------------------------------------------------------
(* Strings                                                                  *)

\* the characters of a string literal
Chars(s) == [i \in 1..Len(s) |-> SubSeq(s, i, i)]

Upper == {"A","B","C","D","E","F","G","H","I","J","K","L","M",
          "N","O","P","Q","R","S","T","U","V","W","X","Y","Z"}

Whitespace == {" ", "\n", "\t"}

\* the absent value of an optional number (JS undefined)
Absent == 0 - 1

Min(a, b) == IF a < b THEN a ELSE b

\* String.prototype.indexOf(c): 0-based index of the first c, -1 when none
RECURSIVE IndexOfFrom(_, _, _)
IndexOfFrom(s, c, i) ==
    IF i > Len(s) THEN 0 - 1
    ELSE IF s[i] = c THEN i - 1
    ELSE IndexOfFrom(s, c, i + 1)

IndexOf(s, c) == IndexOfFrom(s, c, 1)

\* String.prototype.includes for a one-character needle
Includes(s, c) == \E i \in 1..Len(s) : s[i] = c

\* String.prototype.slice(from) and slice(0, to), 0-based
SliceFrom(s, from) == SubSeq(s, from + 1, Len(s))
SliceTo(s, to) == SubSeq(s, 1, to)

RECURSIVE TrimStart(_)
TrimStart(s) ==
    IF s # <<>> /\ Head(s) \in Whitespace THEN TrimStart(Tail(s)) ELSE s

RECURSIVE TrimEnd(_)
TrimEnd(s) ==
    IF s # <<>> /\ s[Len(s)] \in Whitespace
    THEN TrimEnd(SubSeq(s, 1, Len(s) - 1)) ELSE s

Trim(s) == TrimEnd(TrimStart(s))

UpperSeq == <<"A","B","C","D","E","F","G","H","I","J","K","L","M",
              "N","O","P","Q","R","S","T","U","V","W","X","Y","Z">>

LowerSeq == <<"a","b","c","d","e","f","g","h","i","j","k","l","m",
              "n","o","p","q","r","s","t","u","v","w","x","y","z">>

\* String.prototype.toLowerCase
ToLowerCase(s) ==
    [i \in 1..Len(s) |->
        IF s[i] \in Upper THEN LowerSeq[CHOOSE k \in 1..26 : UpperSeq[k] = s[i]] ELSE s[i]]

StartsWith(s, p) == Len(s) >= Len(p) /\ SubSeq(s, 1, Len(p)) = p
EndsWith(s, p) == Len(s) >= Len(p) /\ SubSeq(s, Len(s) - Len(p) + 1, Len(s)) = p

\* String.prototype.includes for a string needle
Contains(s, p) ==
    \E i \in 1..(Len(s) + 1) : i + Len(p) - 1 <= Len(s) /\ SubSeq(s, i, i + Len(p) - 1) = p

RECURSIVE Concat(_)
Concat(ss) == IF ss = <<>> THEN <<>> ELSE Head(ss) \o Concat(Tail(ss))

\* Array.prototype.join
RECURSIVE Join(_, _)
Join(ss, sep) ==
    IF ss = <<>> THEN <<>>
    ELSE IF Len(ss) = 1 THEN ss[1]
    ELSE ss[1] \o sep \o Join(Tail(ss), sep)

\* /^[A-Z_]+$/.test(s)
IsAllCaps(s) == s # <<>> /\ \A i \in 1..Len(s) : s[i] \in Upper \cup {"_"}

\* /^[^_]+_([A-Z_]+)$/.test(name)
LooksLikeComponent(name) ==
    LET u == IndexOf(name, "_")
    IN  u >= 1 /\ IsAllCaps(SliceFrom(name, u + 1))

\* the group captured by /^[^_]+_([A-Z_]+)$/
CapturedSuffix(name) == SliceFrom(name, IndexOf(name, "_") + 1)

-----------------------------------------------------------------------------
(* Component type literals                                                  *)

TEXT == <<"T","E","X","T">>
VIEW == <<"V","I","E","W">>
SCROLLABLE_VIEW == <<"S","C","R","O","L","L","A","B","L","E","_","V","I","E","W">>
SAFEAREAVIEW == <<"S","A","F","E","A","R","E","A","V","I","E","W">>
HEADER == <<"H","E","A","D","E","R">>
TOPBAR == <<"T","O","P","B","A","R">>
BUTTON == <<"B","U","T","T","O","N">>
CARD == <<"C","A","R","D">>
TOUCHABLE_CARD == <<"T","O","U","C","H","A","B","L","E","_","C","A","R","D">>
CHIP == <<"C","H","I","P">>
INPUT == <<"I","N","P","U","T">>
SEARCHABLE_INPUT == <<"S","E","A","R","C","H","A","B","L","E","_","I","N","P","U","T">>
DROPDOWN == <<"D","R","O","P","D","O","W","N">>
CHECKBOX == <<"C","H","E","C","K","B","O","X">>
RADIO == <<"R","A","D","I","O">>
SWITCH == <<"S","W","I","T","C","H">>
AVATAR == <<"A","V","A","T","A","R">>
LISTITEM == <<"L","I","S","T","I","T","E","M">>
SPACER == <<"S","P","A","C","E","R">>
ICON == <<"I","C","O","N">>
SVG == <<"S","V","G">>
BACKBUTTON == <<"B","A","C","K","B","U","T","T","O","N">>
UNKNOWN == <<"U","N","K","N","O","W","N">>

-----------------------------------------------------------------------------
(* Raw Figma node (input).  Optional fields hold their absent value:        *)
(* <<>> for a missing string or array, Absent for a missing number,         *)
(* "" for a missing enum, visible = TRUE for a missing visible.             *)

NoColor == [has |-> FALSE, r |-> 0, g |-> 0, b |-> 0, a |-> 100]

\* a null (or non-object) entry of fills / strokes / effects
NullPaint == [isNull |-> TRUE, type |-> "", visible |-> TRUE, opacity |-> 100,
              color |-> NoColor]

Solid(r, g, b, a, op, vis) ==
    [isNull |-> FALSE, type |-> "SOLID", visible |-> vis, opacity |-> op,
     color |-> [has |-> TRUE, r |-> r, g |-> g, b |-> b, a |-> a]]

Effect(t, vis) ==
    [isNull |-> FALSE, type |-> t, visible |-> vis, opacity |-> 100, color |-> NoColor]

NoBox == [has |-> FALSE, x |-> 0, y |-> 0]

Box(x, y) == [has |-> TRUE, x |-> x, y |-> y]

NoFont == [fontSize |-> 0, fontWeight |-> 0, fontFamily |-> <<>>]

FigmaNode(id, name, type, children) ==
    [id |-> id, name |-> name, type |-> type, visible |-> TRUE, opacity |-> 100,
     children |-> children, characters |-> <<>>, layoutMode |-> "",
     itemSpacing |-> Absent, paddingTop |-> Absent, paddingRight |-> Absent,
     paddingBottom |-> Absent, paddingLeft |-> Absent, counterAxisAlignItems |-> "",
     absoluteBoundingBox |-> NoBox, style |-> NoFont, fills |-> <<>>, strokes |-> <<>>,
     strokeWeight |-> Absent, effects |-> <<>>, cornerRadius |-> Absent,
     pluginData |-> 0]

\* a node of Figma type TEXT
TextNode(id, name, characters) ==
    [FigmaNode(id, name, "TEXT", <<>>) EXCEPT !.characters = characters]

-----------------------------------------------------------------------------
(* UITree node (intermediate)                                               *)

NoPadding == [kind |-> "none", all |-> 0, top |-> Absent, right |-> Absent,
              bottom |-> Absent, left |-> Absent]

NoLayout == [direction |-> "", gap |-> Absent, padding |-> NoPadding, align |-> ""]

NoStyles == [backgroundColor |-> <<>>, borderColor |-> <<>>, borderWidth |-> Absent,
             borderRadius |-> Absent, opacity |-> Absent, textColor |-> <<>>,
             fontSize |-> 0, fontWeight |-> 0, fontFamily |-> <<>>]

NoHints == [variant |-> "", size |-> ""]

NoProps == [variant |-> "", padding |-> "", disabled |-> FALSE, leftIcon |-> <<>>,
            rightIcon |-> <<>>, selected |-> "", icon |-> <<>>, placeholder |-> <<>>,
            checked |-> "", label |-> <<>>]

UINode(id, componentType, componentName, role) ==
    [id |-> id, componentType |-> componentType, componentName |-> componentName,
     role |-> role, text |-> <<>>, title |-> <<>>, subtitle |-> <<>>,
     layout |-> NoLayout, styles |-> NoStyles, styleHints |-> NoHints,
     props |-> NoProps, action |-> "", children |-> <<>>, bounds |-> NoBox]

\* the value of uiTree before generateUITree has returned
NoTree == UINode("", <<>>, <<>>, <<>>)

-----------------------------------------------------------------------------
(* Name classifier                                                          *)

\* the whole name taken for the type
parseComponentNameWhole(fullName) ==
    [componentName |-> fullName, componentType |-> fullName, role |-> fullName]

\* the two parts of the name taken as they stand, without trim()
parseComponentNameUntrimmed(fullName) ==
    LET firstUnderscore == IndexOf(fullName, "_")
        componentType == SliceFrom(fullName, firstUnderscore + 1)
        componentName == SliceTo(fullName, firstUnderscore)
    IN  IF firstUnderscore = 0 - 1
        THEN [componentName |-> fullName, componentType |-> UNKNOWN, role |-> fullName]
        ELSE IF ~IsAllCaps(componentType)
        THEN [componentName |-> fullName, componentType |-> UNKNOWN, role |-> fullName]
        ELSE [componentName |-> componentName, componentType |-> componentType,
              role |-> fullName]

parseComponentName(fullName) ==
    LET firstUnderscore == IndexOf(fullName, "_")
        componentType == Trim(SliceFrom(fullName, firstUnderscore + 1))
        componentName == Trim(SliceTo(fullName, firstUnderscore))
    IN  IF firstUnderscore = 0 - 1
        THEN [componentName |-> fullName, componentType |-> UNKNOWN, role |-> fullName]
        ELSE IF ~IsAllCaps(componentType)
        THEN [componentName |-> fullName, componentType |-> UNKNOWN, role |-> fullName]
        ELSE [componentName |-> componentName, componentType |-> componentType,
              role |-> fullName]

-----------------------------------------------------------------------------
(* Layout extractor                                                         *)

extractLayout(figmaNode) ==
    LET sides == <<figmaNode.paddingTop, figmaNode.paddingRight,
                   figmaNode.paddingBottom, figmaNode.paddingLeft>>
        hasPadding == \E i \in 1..4 : sides[i] # Absent
        allSame == \A i \in 1..4 : sides[i] # Absent /\ sides[i] = sides[1]
    IN  [direction |-> CASE figmaNode.layoutMode = "HORIZONTAL" -> "horizontal"
                         [] figmaNode.layoutMode = "VERTICAL" -> "vertical"
                         [] OTHER -> "",
         gap |-> figmaNode.itemSpacing,
         padding |-> IF ~hasPadding THEN NoPadding
                     ELSE IF allSame
                     THEN [NoPadding EXCEPT !.kind = "number", !.all = sides[1]]
                     ELSE [kind |-> "object", all |-> 0, top |-> sides[1],
                           right |-> sides[2], bottom |-> sides[3], left |-> sides[4]],
         align |-> CASE figmaNode.counterAxisAlignItems = "MIN" -> "start"
                     [] figmaNode.counterAxisAlignItems = "CENTER" -> "center"
                     [] figmaNode.counterAxisAlignItems = "MAX" -> "end"
                     [] figmaNode.counterAxisAlignItems = "STRETCH" -> "stretch"
                     [] OTHER -> ""]

\* layout.padding is truthy: a number other than 0, or the per-side object
PaddingTruthy(p) == p.kind = "object" \/ (p.kind = "number" /\ p.all # 0)

-----------------------------------------------------------------------------
(* Style extractor                                                          *)

Digit(d) == <<"0","1","2","3","4","5","6","7","8","9">>[d + 1]

HexDigit(d) ==
    <<"0","1","2","3","4","5","6","7","8","9","A","B","C","D","E","F">>[d + 1]

\* Number.prototype.toString() of a non-negative integer
RECURSIVE NumStr(_)
NumStr(n) == IF n < 10 THEN <<Digit(n)>> ELSE NumStr(n \div 10) \o <<Digit(n % 10)>>

\* n.toString(16).padStart(2, '0'), upper-cased
toHex(n) ==
    IF n < 16 THEN <<"0", HexDigit(n)>> ELSE <<HexDigit(n \div 16), HexDigit(n % 16)>>

\* Math.round(n * 255) of a channel held in hundredths
to255(n) == (n * 255 + 50) \div 100

\* finalAlpha.toFixed(2) of an alpha held in ten-thousandths
toFixed2(fa) ==
    LET h == (fa + 50) \div 100
    IN  NumStr(h \div 100) \o <<".">> \o <<Digit((h % 100) \div 10), Digit(h % 10)>>

TRANSPARENT == <<"t","r","a","n","s","p","a","r","e","n","t">>

figmaColorToHex(color, opacity) ==
    LET finalAlpha == color.a * opacity
        r == to255(color.r)
        g == to255(color.g)
        b == to255(color.b)
    IN  IF ~color.has THEN TRANSPARENT
        ELSE IF finalAlpha = 0 THEN TRANSPARENT
        ELSE IF finalAlpha < 10000
        THEN <<"r","g","b","a","(">> \o NumStr(r) \o <<",", " ">> \o NumStr(g)
             \o <<",", " ">> \o NumStr(b) \o <<",", " ">> \o toFixed2(finalAlpha) \o <<")">>
        ELSE <<"#">> \o toHex(r) \o toHex(g) \o toHex(b)

\* the predicate of fills.find / strokes.find: visible solid paint with a colour
IsVisibleSolid(f) == f.visible /\ f.type = "SOLID" /\ f.color.has

\* Array.prototype.find over paints: index of the first match, 0 when none
RECURSIVE FindSolidFrom(_, _)
FindSolidFrom(paints, i) ==
    IF i > Len(paints) THEN 0
    ELSE IF IsVisibleSolid(paints[i]) THEN i
    ELSE FindSolidFrom(paints, i + 1)

FindSolid(paints) == FindSolidFrom(paints, 1)

\* the callback dereferences a null entry before a match ends the search
FindSolidThrows(paints) ==
    \E i \in 1..Len(paints) :
        /\ paints[i].isNull
        /\ \A j \in 1..(i - 1) : ~IsVisibleSolid(paints[j])

extractStyles(figmaNode) ==
    LET fi == FindSolid(figmaNode.fills)
        si == FindSolid(figmaNode.strokes)
        fillColor == figmaColorToHex(figmaNode.fills[fi].color, figmaNode.fills[fi].opacity)
        isText == figmaNode.type = "TEXT" \/ figmaNode.characters # <<>>
    IN  [backgroundColor |-> IF fi # 0 /\ fillColor # TRANSPARENT THEN fillColor ELSE <<>>,
         borderColor |-> IF si # 0
                         THEN figmaColorToHex(figmaNode.strokes[si].color,
                                              figmaNode.strokes[si].opacity)
                         ELSE <<>>,
         borderWidth |-> IF si = 0 THEN Absent
                         ELSE IF figmaNode.strokeWeight # Absent THEN figmaNode.strokeWeight
                         ELSE 1,
         borderRadius |-> figmaNode.cornerRadius,
         opacity |-> IF figmaNode.opacity < 100 THEN figmaNode.opacity ELSE Absent,
         textColor |-> IF isText /\ fi # 0 THEN fillColor ELSE <<>>,
         fontSize |-> IF isText THEN figmaNode.style.fontSize ELSE 0,
         fontWeight |-> IF isText THEN figmaNode.style.fontWeight ELSE 0,
         fontFamily |-> IF isText THEN figmaNode.style.fontFamily ELSE <<>>]

extractStylesThrows(figmaNode) ==
    FindSolidThrows(figmaNode.fills) \/ FindSolidThrows(figmaNode.strokes)

extractBounds(figmaNode) == figmaNode.absoluteBoundingBox

\* Array.prototype.some(p => p.visible !== false) dereferences a null entry
\* unless an earlier entry already answered true
SomeVisibleThrows(paints) ==
    \E i \in 1..Len(paints) :
        /\ paints[i].isNull
        /\ \A j \in 1..(i - 1) : ~paints[j].visible

SomeVisibleSolidThrows(paints) ==
    \E i \in 1..Len(paints) :
        /\ paints[i].isNull
        /\ \A j \in 1..(i - 1) : ~(paints[j].visible /\ paints[j].type = "SOLID")

\* outline for every button with a visible stroke, whatever its fills
extractVariantStrokesFirst(figmaNode) ==
    LET hasStrokes == \E i \in 1..Len(figmaNode.strokes) : figmaNode.strokes[i].visible
        hasFills == \E i \in 1..Len(figmaNode.fills) :
                        figmaNode.fills[i].visible /\ figmaNode.fills[i].type = "SOLID"
    IN  IF hasStrokes THEN "outline"
        ELSE IF hasFills THEN "regular"
        ELSE "ghost"

\* button variant from fills / strokes
extractVariant(figmaNode) ==
    LET hasStrokes == \E i \in 1..Len(figmaNode.strokes) : figmaNode.strokes[i].visible
        hasFills == \E i \in 1..Len(figmaNode.fills) :
                        figmaNode.fills[i].visible /\ figmaNode.fills[i].type = "SOLID"
    IN  IF hasStrokes /\ ~hasFills THEN "outline"
        ELSE IF hasFills THEN "regular"
        ELSE "ghost"

extractVariantThrows(figmaNode) ==
    SomeVisibleThrows(figmaNode.strokes) \/ SomeVisibleSolidThrows(figmaNode.fills)

extractCardVariant(figmaNode) ==
    LET hasShadow == \E i \in 1..Len(figmaNode.effects) :
                        figmaNode.effects[i].visible /\ figmaNode.effects[i].type = "DROP_SHADOW"
        hasStroke == \E i \in 1..Len(figmaNode.strokes) : figmaNode.strokes[i].visible
    IN  IF hasShadow THEN "elevated"
        ELSE IF hasStroke THEN "outlined"
        ELSE "filled"

extractCardVariantThrows(figmaNode) ==
    LET shadowThrows ==
            \E i \in 1..Len(figmaNode.effects) :
                /\ figmaNode.effects[i].isNull
                /\ \A j \in 1..(i - 1) :
                       ~(figmaNode.effects[j].visible /\ figmaNode.effects[j].type = "DROP_SHADOW")
        hasShadow == \E i \in 1..Len(figmaNode.effects) :
                        figmaNode.effects[i].visible /\ figmaNode.effects[i].type = "DROP_SHADOW"
    IN  shadowThrows \/ (~hasShadow /\ SomeVisibleThrows(figmaNode.strokes))

isGrey(color) ==
    LET abs(v) == IF v < 0 THEN 0 - v ELSE v
    IN  color.has /\ abs(color.r - color.g) < 5 /\ abs(color.g - color.b) < 5
        /\ abs(color.r - color.b) < 5

\* disabled by the opacity alone
isDisabledByOpacity(node) == node.opacity < 90

isDisabled(node) ==
    LET fi == FindSolid(node.fills)
    IN  node.opacity < 90 \/ (fi # 0 /\ isGrey(node.fills[fi].color))

isDisabledThrows(node) == ~(node.opacity < 90) /\ FindSolidThrows(node.fills)

-----------------------------------------------------------------------------
(* Sibling ordering                                                         *)

\* the comparator handed to Array.prototype.sort
ComparePosition(a, b, layoutMode) ==
    LET aBox == a.absoluteBoundingBox
        bBox == b.absoluteBoundingBox
        yDiff == aBox.y - bBox.y
    IN  IF ~aBox.has \/ ~bBox.has THEN 0
        ELSE IF layoutMode = "HORIZONTAL" THEN aBox.x - bBox.x
        ELSE IF yDiff > 0 - 2 /\ yDiff < 2 THEN aBox.x - bBox.x
        ELSE yDiff

\* Array.prototype.filter
RECURSIVE FilterVisible(_)
FilterVisible(children) ==
    IF children = <<>> THEN <<>>
    ELSE IF Head(children).visible THEN <<Head(children)>> \o FilterVisible(Tail(children))
    ELSE FilterVisible(Tail(children))

\* position at which the engine's binary insertion puts pivot into sorted work[1..hi]
RECURSIVE InsertionPoint(_, _, _, _, _)
InsertionPoint(work, pivot, left, right, layoutMode) ==
    IF left >= right THEN left
    ELSE LET mid == left + ((right - left) \div 2)
         IN  IF ComparePosition(pivot, work[mid + 1], layoutMode) < 0
             THEN InsertionPoint(work, pivot, left, mid, layoutMode)
             ELSE InsertionPoint(work, pivot, mid + 1, right, layoutMode)

\* binary insertion of work[start..] into the sorted prefix work[1..start-1]
\* (stable)
RECURSIVE BinaryInsertionSort(_, _, _)
BinaryInsertionSort(work, start, layoutMode) ==
    IF start > Len(work) THEN work
    ELSE LET pivot == work[start]
             at == InsertionPoint(work, pivot, 0, start - 1, layoutMode)
             moved == SubSeq(work, 1, at) \o <<pivot>> \o SubSeq(work, at + 1, start - 1)
                      \o SubSeq(work, start + 1, Len(work))
         IN  BinaryInsertionSort(moved, start + 1, layoutMode)

\* the engine's run detection: the length of the longest prefix work[1..n] that
\* is non-descending, or strictly descending when the first pair is (n >= 2)
RECURSIVE RunLength(_, _, _, _)
RunLength(work, n, isDescending, layoutMode) ==
    IF n >= Len(work) THEN n
    ELSE LET order == ComparePosition(work[n + 1], work[n], layoutMode)
         IN  IF (isDescending /\ order >= 0) \/ (~isDescending /\ order < 0) THEN n
             ELSE RunLength(work, n + 1, isDescending, layoutMode)

\* the run of length n put in ascending order: a descending run is reversed
MakeRun(work, n, isDescending) ==
    IF isDescending
    THEN [i \in 1..Len(work) |-> IF i <= n THEN work[n + 1 - i] ELSE work[i]]
    ELSE work

SortFromRun(work, n, isDescending, layoutMode) ==
    BinaryInsertionSort(MakeRun(work, n, isDescending), n + 1, layoutMode)

\* Array.prototype.sort on an array shorter than the engine's minimum run:
\* the initial run is detected and the rest is inserted into it
ArraySort(work, layoutMode) ==
    IF Len(work) < 2 THEN work
    ELSE LET isDescending == ComparePosition(work[2], work[1], layoutMode) < 0
         IN  SortFromRun(work, RunLength(work, 2, isDescending, layoutMode),
                         isDescending, layoutMode)

sortChildrenByPosition(children, layoutMode) ==
    ArraySort(FilterVisible(children), layoutMode)

-----------------------------------------------------------------------------
(* Text helpers of the tree builder                                         *)

\* findFirstTextDescendant: the path (child indices) of the first node of type
\* TEXT with a non-empty name, in document order; <<0>> when there is none
RECURSIVE FirstTextPath(_)
RECURSIVE FirstTextPathIn(_, _)
FirstTextPath(figmaNode) ==
    IF figmaNode.type = "TEXT" /\ figmaNode.name # <<>> THEN <<>>
    ELSE FirstTextPathIn(figmaNode.children, 1)

FirstTextPathIn(children, i) ==
    IF i > Len(children) THEN <<0>>
    ELSE LET p == FirstTextPath(children[i])
         IN  IF p # <<0>> THEN <<i>> \o p ELSE FirstTextPathIn(children, i + 1)

RECURSIVE NodeAt(_, _)
NodeAt(figmaNode, path) ==
    IF path = <<>> THEN figmaNode ELSE NodeAt(figmaNode.children[Head(path)], Tail(path))

\* collectTextDescendants(figmaNode, texts, limit): texts after the call
RECURSIVE collectTextDescendants(_, _, _)
RECURSIVE collectTextDescendantsIn(_, _, _, _)
collectTextDescendants(figmaNode, texts, limit) ==
    IF Len(texts) >= limit THEN texts
    ELSE IF figmaNode.type = "TEXT" /\ figmaNode.name # <<>>
    THEN Append(texts, figmaNode.name)
    ELSE collectTextDescendantsIn(figmaNode.children, 1, texts, limit)

collectTextDescendantsIn(children, i, texts, limit) ==
    IF i > Len(children) \/ Len(texts) >= limit THEN texts
    ELSE collectTextDescendantsIn(children, i + 1,
                                  collectTextDescendants(children[i], texts, limit), limit)

\* collectAllTextNodes(figmaNode, results): results after the call
RECURSIVE collectAllTextNodes(_, _)
RECURSIVE collectAllTextNodesIn(_, _, _)
collectAllTextNodes(figmaNode, results) ==
    IF figmaNode.type = "TEXT"
    THEN Append(results,
                [UINode(figmaNode.id, TEXT,
                        IF figmaNode.name # <<>> THEN figmaNode.name ELSE <<"T","e","x","t">>,
                        <<>>)
                    EXCEPT !.text = figmaNode.characters,
                           !.styles = extractStyles(figmaNode)])
    ELSE collectAllTextNodesIn(figmaNode.children, 1, results)

collectAllTextNodesIn(children, i, results) ==
    IF i > Len(children) THEN results
    ELSE collectAllTextNodesIn(children, i + 1, collectAllTextNodes(children[i], results))

\* collectAllTextNodes dereferences a null paint of some TEXT descendant
RECURSIVE collectAllTextNodesThrows(_)
collectAllTextNodesThrows(figmaNode) ==
    IF figmaNode.type = "TEXT" THEN extractStylesThrows(figmaNode)
    ELSE \E i \in 1..Len(figmaNode.children) :
             collectAllTextNodesThrows(figmaNode.children[i])

isFigmaNodeIcon(node) ==
    \/ parseComponentName(node.name).componentType \in {ICON, SVG}
    \/ (node.type = "INSTANCE" /\ Contains(ToLowerCase(node.name), <<"i","c","o","n">>))
    \/ node.type = "VECTOR"

isLayoutContainer(componentType) ==
    componentType \in {VIEW, SCROLLABLE_VIEW, HEADER, TOPBAR, SAFEAREAVIEW, CARD, BUTTON,
                       INPUT, SEARCHABLE_INPUT, DROPDOWN, CHECKBOX, RADIO, CHIP}

\* only the slots of the node itself count as content
hasOwnContent(node) == node.text # <<>> \/ node.title # <<>> \/ node.subtitle # <<>>

RECURSIVE hasSemanticContent(_)
hasSemanticContent(node) ==
    \/ node.text # <<>> \/ node.title # <<>> \/ node.subtitle # <<>>
    \/ \E i \in 1..Len(node.children) :
           node.children[i].componentType # VIEW \/ hasSemanticContent(node.children[i])

\* size hint of parseTextNode / extractTextChildren
TextSize(fontSize) ==
    IF fontSize >= 12 /\ fontSize <= 14 THEN "sm"
    ELSE IF fontSize >= 15 /\ fontSize <= 17 THEN "md"
    ELSE IF fontSize >= 18 THEN "lg"
    ELSE ""

\* size hint of parseButtonNode
ButtonSize(fontSize) ==
    IF fontSize = 0 THEN ""
    ELSE IF fontSize <= 12 THEN "sm"
    ELSE IF fontSize <= 16 THEN "md"
    ELSE "lg"

-----------------------------------------------------------------------------
(* Semantic tree builder                                                    *)

\* which rule of parseFigmaNode handles the node
\*   T1 raw TEXT, T2one / T2many wrapper named ..._TEXT, T3 single-text frame,
\*   REG regular parsing
ParseRule(figmaNode) ==
    LET isFrame == figmaNode.type \in {"FRAME", "COMPONENT"}
        texts == collectAllTextNodes(figmaNode, <<>>)
        isWrapper == isFrame /\ EndsWith(figmaNode.name, <<"_">> \o TEXT)
    IN  IF figmaNode.type = "TEXT" THEN "T1"
        ELSE IF isWrapper /\ Len(texts) = 1 THEN "T2one"
        ELSE IF isWrapper /\ Len(texts) > 1 THEN "T2many"
        ELSE IF /\ isFrame
                /\ Len(figmaNode.children) = 1
                /\ figmaNode.children[1].type = "TEXT"
                /\ ~Includes(figmaNode.name, "_")
        THEN "T3"
        ELSE "REG"

\* every name classified as a VIEW
ClassifyAsView(figmaNode) ==
    [componentName |-> figmaNode.name, componentType |-> VIEW, role |-> figmaNode.name]

\* Step 1 and 1.5 of parseFigmaNode: the classification after the VECTOR upgrade
Classify(figmaNode) ==
    LET c == parseComponentName(figmaNode.name)
    IN  IF figmaNode.type = "VECTOR" /\ c.componentType = UNKNOWN
        THEN [componentName |-> figmaNode.name, componentType |-> ICON,
              role |-> figmaNode.name]
        ELSE c

parseTouchableCard(figmaNode, componentName, role) ==
    LET layout == extractLayout(figmaNode)
        textNodes == collectTextDescendants(figmaNode, <<>>, 2)
    IN  [UINode(figmaNode.id, CARD, componentName, role) EXCEPT
            !.action = "press",
            !.styleHints = [NoHints EXCEPT !.variant = extractVariant(figmaNode)],
            !.layout = IF PaddingTruthy(layout.padding)
                       THEN [NoLayout EXCEPT !.padding = layout.padding]
                       ELSE NoLayout,
            !.title = IF Len(textNodes) >= 1 THEN textNodes[1] ELSE <<>>,
            !.subtitle = IF Len(textNodes) >= 2 THEN textNodes[2] ELSE <<>>]

parseTextNode(figmaNode, node) ==
    [node EXCEPT !.text = figmaNode.name,
                 !.styleHints = [NoHints EXCEPT !.size = TextSize(figmaNode.style.fontSize)]]

\* the children that parseButtonNode / parseChipNode take for icons
IconIndices(figmaNode, textPath) ==
    {i \in 1..Len(figmaNode.children) :
        /\ figmaNode.children[i].visible
        /\ textPath # <<i>>
        /\ isFigmaNodeIcon(figmaNode.children[i])}

\* cleanName of an icon child
IconName(iconNode) ==
    LET componentName == parseComponentName(iconNode.name).componentName
    IN  IF componentName # <<>> THEN componentName
        ELSE IF iconNode.name # <<>> THEN iconNode.name
        ELSE <<"I","c","o","n">>

\* textChild.characters || textChild.name
TextOf(textChild) ==
    IF textChild.characters # <<>> THEN textChild.characters ELSE textChild.name

parseButtonNode(figmaNode, node) ==
    LET textPath == FirstTextPath(figmaNode)
        hasText == figmaNode.children # <<>> /\ textPath # <<0>>
        textChild == NodeAt(figmaNode, textPath)
        icons == IF hasText THEN IconIndices(figmaNode, textPath) ELSE {}
        textX == IF textChild.absoluteBoundingBox.has THEN textChild.absoluteBoundingBox.x
                 ELSE 0
        iconX(i) == IF figmaNode.children[i].absoluteBoundingBox.has
                    THEN figmaNode.children[i].absoluteBoundingBox.x ELSE 0
        lefts == {i \in icons : iconX(i) < textX}
        rights == icons \ lefts
        last(S) == CHOOSE i \in S : \A j \in S : j <= i
    IN  [node EXCEPT
            !.layout = extractLayout(figmaNode),
            !.styleHints = [variant |-> extractVariant(figmaNode),
                            size |-> IF hasText THEN ButtonSize(textChild.style.fontSize)
                                     ELSE ""],
            !.text = IF hasText THEN TextOf(textChild) ELSE <<>>,
            !.props = [NoProps EXCEPT
                          !.leftIcon = IF lefts # {}
                                       THEN IconName(figmaNode.children[last(lefts)])
                                       ELSE <<>>,
                          !.rightIcon = IF rights # {}
                                        THEN IconName(figmaNode.children[last(rights)])
                                        ELSE <<>>,
                          !.disabled = figmaNode.opacity < 90],
            !.action = "press"]

\* (icon.name || '').toLowerCase().match(/tick|check/)
IsTickName(name) ==
    \/ Contains(ToLowerCase(name), <<"t","i","c","k">>)
    \/ Contains(ToLowerCase(name), <<"c","h","e","c","k">>)

parseChipNode(figmaNode, node) ==
    LET textPath == FirstTextPath(figmaNode)
        hasText == figmaNode.children # <<>> /\ textPath # <<0>>
        icons == IconIndices(figmaNode, textPath)
        first(S) == CHOOSE i \in S : \A j \in S : i <= j
        ticks == {i \in icons : IsTickName(figmaNode.children[i].name)}
        mains == IF ticks = {} THEN icons ELSE icons \ {first(ticks)}
        icon == IF mains # {} THEN IconName(figmaNode.children[first(mains)]) ELSE <<>>
        disabled == isDisabled(figmaNode)
    IN  [node EXCEPT
            !.layout = extractLayout(figmaNode),
            !.styleHints = [NoHints EXCEPT !.variant = "flat"],
            !.text = IF hasText THEN TextOf(NodeAt(figmaNode, textPath)) ELSE <<>>,
            !.props = [NoProps EXCEPT
                          !.selected = IF ticks # {} THEN "true" ELSE "",
                          !.icon = icon,
                          !.disabled = disabled],
            !.action = IF (icon # <<>> \/ ticks # {}) /\ ~disabled THEN "press" ELSE ""]

\* CardPadding quantised from the dominant padding value
CardPadding(layout) ==
    LET pad == layout.padding
        p == IF pad.kind = "number" THEN pad.all
             ELSE IF pad.top = Absent THEN 0 ELSE pad.top
    IN  IF ~PaddingTruthy(pad) THEN "none"
        ELSE IF p = 0 THEN "none"
        ELSE IF p <= 12 THEN "sm"
        ELSE IF p <= 20 THEN "md"
        ELSE "lg"

\* names of the direct TEXT children, in input order
RECURSIVE TextChildNames(_)
TextChildNames(children) ==
    IF children = <<>> THEN <<>>
    ELSE IF Head(children).type = "TEXT"
    THEN <<Head(children).name>> \o TextChildNames(Tail(children))
    ELSE TextChildNames(Tail(children))

IsLabelName(name) == Contains(ToLowerCase(name), <<"l","a","b","e","l">>)

\* Array.prototype.find over strings: the first that satisfies Ok, <<>> when none
RECURSIVE FirstWhere(_, _)
FirstWhere(names, wantLabel) ==
    IF names = <<>> THEN <<>>
    ELSE IF IsLabelName(Head(names)) = wantLabel THEN Head(names)
    ELSE FirstWhere(Tail(names), wantLabel)

parseInputNode(figmaNode, node) ==
    LET names == TextChildNames(figmaNode.children)
    IN  [node EXCEPT
            !.layout = extractLayout(figmaNode),
            !.text = FirstWhere(names, FALSE),
            !.title = FirstWhere(names, TRUE)]

parseIconNode(figmaNode, node) == node

parseDropdownNode(figmaNode, node) ==
    LET textPath == FirstTextPath(figmaNode)
        hasText == figmaNode.children # <<>> /\ textPath # <<0>>
    IN  [node EXCEPT
            !.layout = extractLayout(figmaNode),
            !.props = [NoProps EXCEPT
                          !.placeholder = IF hasText THEN TextOf(NodeAt(figmaNode, textPath))
                                          ELSE <<>>]]

\* the loop of parseCheckboxNode / parseRadioNode over the direct children:
\* the state (checked/selected) and the label after the last child
RECURSIVE ToggleState(_, _)
ToggleState(children, state) ==
    IF children = <<>> THEN state
    ELSE ToggleState(Tail(children),
                     IF Head(children).name = <<"_","T","R","U","E">> THEN "true"
                     ELSE IF Head(children).name = <<"_","F","A","L","S","E">> THEN "false"
                     ELSE state)

RECURSIVE ToggleLabel(_, _, _)
ToggleLabel(children, label, useName) ==
    IF children = <<>> THEN label
    ELSE LET c == Head(children)
             t == IF c.characters # <<>> THEN c.characters
                  ELSE IF useName THEN c.name ELSE <<>>
         IN  ToggleLabel(Tail(children),
                         IF c.type = "TEXT" /\ t # <<>> THEN t ELSE label, useName)

parseCheckboxNode(figmaNode, node) ==
    [node EXCEPT
        !.layout = extractLayout(figmaNode),
        !.props = [NoProps EXCEPT
                      !.checked = ToggleState(figmaNode.children, ""),
                      !.label = ToggleLabel(figmaNode.children, <<>>, TRUE)]]

parseRadioNode(figmaNode, node) ==
    [node EXCEPT
        !.layout = extractLayout(figmaNode),
        !.props = [NoProps EXCEPT
                      !.selected = ToggleState(figmaNode.children, ""),
                      !.label = ToggleLabel(figmaNode.children, <<>>, FALSE)]]

\* extractTextChildren: the parent's text and size hint from its first direct
\* TEXT child
extractTextChildren(figmaNode, node) ==
    LET idx == {i \in 1..Len(figmaNode.children) : figmaNode.children[i].type = "TEXT"}
        firstText == figmaNode.children[CHOOSE i \in idx : \A j \in idx : i <= j]
        size == TextSize(firstText.style.fontSize)
    IN  IF idx = {} THEN node
        ELSE IF firstText.name = <<>> THEN node
        ELSE [node EXCEPT !.text = firstText.name,
                          !.styleHints = IF size # "" THEN [@ EXCEPT !.size = size] ELSE @]

\* no flattening: every parsed child is kept
FlattenChildKept(parsedChild) == <<parsedChild>>

\* the child is kept and its children are added next to it
FlattenChildCopied(parsedChild) == <<parsedChild>> \o parsedChild.children

\* the flattening step shared by parseLayoutNode and parseCardNode: a parsed
\* child is kept, or replaced by its children when it is a VIEW without
\* semantic content
FlattenChild(parsedChild) ==
    IF parsedChild.componentType = VIEW /\ ~hasSemanticContent(parsedChild)
    THEN parsedChild.children
    ELSE <<parsedChild>>

RECURSIVE parseFigmaNode(_)
RECURSIVE ParseChildren(_, _)

\* the for-loop of parseLayoutNode (skipText) and parseCardNode over the
\* children sorted by position
ParseChildren(sorted, skipText) ==
    IF sorted = <<>> THEN <<>>
    ELSE IF skipText /\ Head(sorted).type = "TEXT" THEN ParseChildren(Tail(sorted), skipText)
    ELSE FlattenChild(parseFigmaNode(Head(sorted))) \o ParseChildren(Tail(sorted), skipText)

parseLayoutNode(figmaNode, node) ==
    LET withText == extractTextChildren(figmaNode, [node EXCEPT !.layout = extractLayout(figmaNode)])
    IN  [withText EXCEPT
            !.children = ParseChildren(
                            sortChildrenByPosition(figmaNode.children, figmaNode.layoutMode),
                            TRUE)]

parseCardNode(figmaNode, node) ==
    [node EXCEPT
        !.props = [NoProps EXCEPT !.variant = extractCardVariant(figmaNode),
                                  !.padding = CardPadding(extractLayout(figmaNode))],
        !.children = ParseChildren(
                        sortChildrenByPosition(figmaNode.children, figmaNode.layoutMode),
                        FALSE)]

parseFigmaNode(figmaNode) ==
    LET rule == ParseRule(figmaNode)
        c == Classify(figmaNode)
        componentType == c.componentType
        texts == collectAllTextNodes(figmaNode, <<>>)
        node == [UINode(figmaNode.id, componentType, c.componentName, c.role) EXCEPT
                    !.bounds = extractBounds(figmaNode),
                    !.styles = extractStyles(figmaNode),
                    !.layout = IF isLayoutContainer(componentType)
                               THEN extractLayout(figmaNode) ELSE NoLayout]
    IN  CASE rule = "T1" ->
               [UINode(figmaNode.id, TEXT, <<"T","e","x","t">>, figmaNode.name) EXCEPT
                   !.text = figmaNode.characters,
                   !.styles = extractStyles(figmaNode)]
          [] rule = "T2one" -> texts[1]
          [] rule = "T2many" ->
               [UINode(figmaNode.id, VIEW,
                       SliceTo(figmaNode.name, Len(figmaNode.name) - 5), figmaNode.name)
                   EXCEPT !.children = texts]
          [] rule = "T3" ->
               [UINode(figmaNode.id, TEXT, <<"T","e","x","t">>, figmaNode.name) EXCEPT
                   !.text = figmaNode.children[1].characters]
          [] OTHER ->
               CASE componentType = TOUCHABLE_CARD ->
                      parseTouchableCard(figmaNode, c.componentName, c.role)
                 [] componentType = TEXT -> parseTextNode(figmaNode, node)
                 [] componentType = BUTTON -> parseButtonNode(figmaNode, node)
                 [] componentType = CHIP -> parseChipNode(figmaNode, node)
                 [] componentType = CARD -> parseCardNode(figmaNode, node)
                 [] componentType \in {INPUT, SEARCHABLE_INPUT} -> parseInputNode(figmaNode, node)
                 [] componentType \in {SVG, ICON} -> parseIconNode(figmaNode, node)
                 [] componentType = DROPDOWN -> parseDropdownNode(figmaNode, node)
                 [] componentType = CHECKBOX -> parseCheckboxNode(figmaNode, node)
                 [] componentType = RADIO -> parseRadioNode(figmaNode, node)
                 [] componentType \in {VIEW, SCROLLABLE_VIEW, HEADER, TOPBAR, SAFEAREAVIEW} ->
                      parseLayoutNode(figmaNode, node)
                 [] OTHER ->
                      IF figmaNode.layoutMode # "" THEN parseLayoutNode(figmaNode, node)
                      ELSE node

-----------------------------------------------------------------------------
(* Where the builder throws a TypeError: a null entry of fills, strokes or  *)
(* effects is dereferenced by the callbacks of find / some.                 *)

RECURSIVE parseFigmaNodeThrows(_)
RECURSIVE ParseChildrenThrows(_, _)

ParseChildrenThrows(sorted, skipText) ==
    \E i \in 1..Len(sorted) :
        /\ ~(skipText /\ sorted[i].type = "TEXT")
        /\ parseFigmaNodeThrows(sorted[i])

parseFigmaNodeThrows(figmaNode) ==
    LET isFrame == figmaNode.type \in {"FRAME", "COMPONENT"}
        isWrapper == isFrame /\ EndsWith(figmaNode.name, <<"_">> \o TEXT)
        rule == ParseRule(figmaNode)
        componentType == Classify(figmaNode).componentType
        sorted == sortChildrenByPosition(figmaNode.children, figmaNode.layoutMode)
    IN  IF figmaNode.type = "TEXT" THEN extractStylesThrows(figmaNode)
        ELSE IF isWrapper /\ collectAllTextNodesThrows(figmaNode) THEN TRUE
        ELSE IF rule # "REG" THEN FALSE
        ELSE IF componentType = TOUCHABLE_CARD THEN extractVariantThrows(figmaNode)
        ELSE IF extractStylesThrows(figmaNode) THEN TRUE
        ELSE CASE componentType = BUTTON -> extractVariantThrows(figmaNode)
               [] componentType = CHIP -> isDisabledThrows(figmaNode)
               [] componentType = CARD ->
                    extractCardVariantThrows(figmaNode) \/ ParseChildrenThrows(sorted, FALSE)
               [] componentType \in {VIEW, SCROLLABLE_VIEW, HEADER, TOPBAR, SAFEAREAVIEW} ->
                    ParseChildrenThrows(sorted, TRUE)
               [] componentType \in {TEXT, INPUT, SEARCHABLE_INPUT, SVG, ICON, DROPDOWN,
                                     CHECKBOX, RADIO} -> FALSE
               [] OTHER -> figmaNode.layoutMode # "" /\ ParseChildrenThrows(sorted, TRUE)

-----------------------------------------------------------------------------
(* Entry and root search                                                    *)

\* only a document, canvas or page without a component name is skipped
shouldSkipNodeByType(figmaNode) ==
    /\ ~LooksLikeComponent(figmaNode.name)
    /\ figmaNode.type \in {"DOCUMENT", "CANVAS", "PAGE"}
    /\ ~(/\ figmaNode.type \in {"FRAME", "COMPONENT"}
         /\ Len(figmaNode.children) = 1
         /\ figmaNode.children[1].type = "TEXT"
         /\ ~Includes(figmaNode.name, "_"))

shouldSkipNode(figmaNode) ==
    IF figmaNode.type = "TEXT" THEN FALSE
    ELSE IF /\ figmaNode.type \in {"FRAME", "COMPONENT"}
            /\ Len(figmaNode.children) = 1
            /\ figmaNode.children[1].type = "TEXT"
            /\ ~Includes(figmaNode.name, "_")
    THEN FALSE
    ELSE IF ~LooksLikeComponent(figmaNode.name) THEN TRUE
    ELSE figmaNode.type \in {"DOCUMENT", "CANVAS", "PAGE"}

\* findTopLevelComponent: <<component>>, or <<>> for null
RECURSIVE findTopLevelComponent(_)
RECURSIVE findTopLevelComponentIn(_, _)
findTopLevelComponent(node) ==
    IF shouldSkipNode(node) THEN findTopLevelComponentIn(node.children, 1)
    ELSE <<node>>

findTopLevelComponentIn(children, i) ==
    IF i > Len(children) THEN <<>>
    ELSE LET component == findTopLevelComponent(children[i])
         IN  IF component # <<>> THEN component
             ELSE findTopLevelComponentIn(children, i + 1)

-----------------------------------------------------------------------------
(* What the builder leaves in the objects it was given                     *)

\* the children array sorted where it stands
ChildrenSortedInPlace(children, layoutMode) == ArraySort(children, layoutMode)

\* the children array of a node after sortChildrenByPosition(children,
\* layoutMode): filter returns a new array and sort works on that one
ChildrenAfterSort(children, layoutMode) == children

\* parseFigmaNode hands the node to parseLayoutNode or parseCardNode, which
\* sort its children
SortsChildren(figmaNode) ==
    LET componentType == Classify(figmaNode).componentType
    IN  /\ ParseRule(figmaNode) = "REG"
        /\ figmaNode.children # <<>>
        /\ \/ componentType \in {CARD, VIEW, SCROLLABLE_VIEW, HEADER, TOPBAR, SAFEAREAVIEW}
           \/ /\ componentType \notin {TOUCHABLE_CARD, TEXT, BUTTON, CHIP, INPUT,
                                        SEARCHABLE_INPUT, SVG, ICON, DROPDOWN, CHECKBOX, RADIO}
              /\ figmaNode.layoutMode # ""

\* the Figma node as parseFigmaNode(figmaNode) leaves it
RECURSIVE FigmaAfterParse(_)
FigmaAfterParse(figmaNode) ==
    IF ~SortsChildren(figmaNode) THEN figmaNode
    ELSE [figmaNode EXCEPT
             !.children =
                 [i \in DOMAIN figmaNode.children |->
                     IF ChildrenAfterSort(figmaNode.children, figmaNode.layoutMode)[i].visible
                     THEN FigmaAfterParse(
                              ChildrenAfterSort(figmaNode.children, figmaNode.layoutMode)[i])
                     ELSE ChildrenAfterSort(figmaNode.children, figmaNode.layoutMode)[i]]]

\* the node as generateUITree leaves it: the first component found below it
\* has been parsed
RECURSIVE FigmaAfterSearch(_)
RECURSIVE FigmaAfterSearchIn(_, _)
FigmaAfterSearch(node) ==
    IF shouldSkipNode(node)
    THEN [node EXCEPT !.children = FigmaAfterSearchIn(node.children, 1)]
    ELSE FigmaAfterParse(node)

FigmaAfterSearchIn(children, i) ==
    IF i > Len(children) THEN children
    ELSE IF findTopLevelComponent(children[i]) # <<>>
    THEN [children EXCEPT ![i] = FigmaAfterSearch(children[i])]
    ELSE FigmaAfterSearchIn(children, i + 1)

\* the input object as generateUITree(figmaJson) leaves it
InputAfterBuild(figmaJson) ==
    IF figmaJson.document # <<>>
    THEN [figmaJson EXCEPT !.document = <<FigmaAfterSearch(figmaJson.document[1])>>]
    ELSE [figmaJson EXCEPT !.self = FigmaAfterSearch(figmaJson.self)]

\* the search started at the top-level object whatever it holds
DocumentOfSelf(figmaJson) == figmaJson.self

\* figmaJson.document || figmaJson
DocumentOf(figmaJson) ==
    IF figmaJson.document # <<>> THEN figmaJson.document[1] ELSE figmaJson.self

NoRootComponent == "No top-level component found in Figma JSON"

\* generateUITree: the tree it returns, or the error it throws
generateUITree(figmaJson) ==
    LET topFrame == findTopLevelComponent(DocumentOf(figmaJson))
    IN  IF topFrame = <<>> THEN [error |-> NoRootComponent, tree |-> NoTree]
        ELSE IF parseFigmaNodeThrows(topFrame[1]) THEN [error |-> "TypeError", tree |-> NoTree]
        ELSE [error |-> "", tree |-> parseFigmaNode(topFrame[1])]

-----------------------------------------------------------------------------
(* Component map (component-map.ts)                                         *)

\* JSON.stringify of a string
RECURSIVE JsonEscape(_)
JsonEscape(s) ==
    IF s = <<>> THEN <<>>
    ELSE (CASE Head(s) = "\"" -> <<"\\", "\"">>
            [] Head(s) = "\\" -> <<"\\", "\\">>
            [] Head(s) = "\n" -> <<"\\", "n">>
            [] Head(s) = "\t" -> <<"\\", "t">>
            [] OTHER -> <<Head(s)>>) \o JsonEscape(Tail(s))

JsonString(s) == <<"\"">> \o JsonEscape(s) \o <<"\"">>

\* one "key":value member; value is already stringified
Member(key, value) == <<JsonString(Chars(key)) \o <<":">> \o value>>

\* JSON.stringify of an object given its members in insertion order
JsonObject(members) == <<"{">> \o Join(members, <<",">>) \o <<"}">>

\* a member that is present only under a condition
Opt(cond, key, value) == IF cond THEN Member(key, value) ELSE <<>>

\* the members of the object buildLayoutStyle returns (none: undefined)
buildLayoutStyle(node) ==
    LET l == node.layout
        st == node.styles
        p == l.padding
        alignItems == CASE l.align = "center" -> "center"
                        [] l.align = "end" -> "flex-end"
                        [] OTHER -> "flex-start"
    IN  Opt(l.direction = "horizontal", "flexDirection", JsonString(Chars("row")))
        \o Opt(l.gap # Absent /\ l.gap # 0, "gap", NumStr(l.gap))
        \o Opt(l.align # "", "alignItems", JsonString(Chars(alignItems)))
        \o Opt(p.kind = "number" /\ p.all # 0, "padding", NumStr(p.all))
        \o Opt(p.kind = "object" /\ p.top # Absent /\ p.top # 0, "paddingTop", NumStr(p.top))
        \o Opt(p.kind = "object" /\ p.right # Absent /\ p.right # 0, "paddingRight",
               NumStr(p.right))
        \o Opt(p.kind = "object" /\ p.bottom # Absent /\ p.bottom # 0, "paddingBottom",
               NumStr(p.bottom))
        \o Opt(p.kind = "object" /\ p.left # Absent /\ p.left # 0, "paddingLeft",
               NumStr(p.left))
        \o Opt(st.backgroundColor # <<>>, "backgroundColor", JsonString(st.backgroundColor))
        \o Opt(st.borderRadius # Absent /\ st.borderRadius # 0, "borderRadius",
               NumStr(st.borderRadius))
        \o Opt(st.borderColor # <<>>, "borderColor", JsonString(st.borderColor))
        \o Opt(st.borderColor # <<>>, "borderWidth",
               NumStr(IF st.borderWidth # Absent /\ st.borderWidth # 0 THEN st.borderWidth
                      ELSE 1))

mapButtonVariant(variant) ==
    CASE variant \in {"outline", "outlined"} -> "outline"
      [] variant \in {"ghost", "text"} -> "ghost"
      [] OTHER -> "regular"

mapCardVariant(variant) ==
    CASE variant \in {"outline", "outlined"} -> "outlined"
      [] variant = "filled" -> "filled"
      [] OTHER -> "elevated"

mapAvatarSize(size) == IF size \in {"xs", "sm", "lg", "xl"} THEN size ELSE "md"

\* findChildNode(root, predicate) for the predicates the HEADER mapper uses:
\* <<node>> for the first match in pre-order, <<>> for undefined
RECURSIVE findChildNode(_, _)
RECURSIVE findChildNodeIn(_, _, _)
findChildNode(root, pred) ==
    LET hit == CASE pred = "left" -> root.role = Chars("Container_SVG")
                 [] pred = "right" -> root.role = Chars("Button_SVG")
                 [] pred = "back" -> root.componentType = BACKBUTTON
                 [] OTHER -> root.componentType = TEXT
    IN  IF hit THEN <<root>> ELSE findChildNodeIn(root.children, 1, pred)

findChildNodeIn(children, i, pred) ==
    IF i > Len(children) THEN <<>>
    ELSE LET found == findChildNode(children[i], pred)
         IN  IF found # <<>> THEN found ELSE findChildNodeIn(children, i + 1, pred)

\* prop values by runtime kind; undefined props are left out of the list
PStr(key, s) == <<[key |-> key, kind |-> "string", v |-> s]>>
PBool(key, b) == <<[key |-> key, kind |-> "boolean", v |-> IF b THEN <<"1">> ELSE <<>>]>>
PJson(key, j) == <<[key |-> key, kind |-> "object", v |-> j]>>
POptStr(key, s) == IF s # <<>> THEN PStr(key, s) ELSE <<>>
POptTrue(key, b) == IF b THEN PBool(key, TRUE) ELSE <<>>

Or2(a, b) == IF a # <<>> THEN a ELSE b
Or3(a, b, c) == Or2(a, Or2(b, c))

PressHandler(node) == IF node.action = "press" THEN PStr("onPress", Chars("() => {}")) ELSE <<>>

\* the component library's registered types
MappedTypes ==
    {BUTTON, CARD, TOUCHABLE_CARD, CHIP, CHECKBOX, RADIO, DROPDOWN, LISTITEM, AVATAR,
     SPACER, INPUT, SEARCHABLE_INPUT, SWITCH, TEXT, VIEW, SCROLLABLE_VIEW, HEADER, TOPBAR,
     SAFEAREAVIEW, ICON, SVG}

\* getComponentMapping(componentType) is defined
getComponentMapping(componentType) == componentType \in MappedTypes

\* mapping.component, resolved for the node
ComponentOf(node) ==
    LET t == node.componentType
    IN  CASE t = BUTTON -> "Button"
          [] t \in {CARD, TOUCHABLE_CARD} -> "Card"
          [] t = CHIP -> "Chip"
          [] t = CHECKBOX -> "Checkbox"
          [] t = RADIO -> "RadioGroup"
          [] t = DROPDOWN -> "Dropdown"
          [] t = LISTITEM -> "ListItem"
          [] t = AVATAR -> "Avatar"
          [] t = SPACER -> "Spacer"
          [] t = INPUT -> "TextInput"
          [] t = SEARCHABLE_INPUT -> "SearchableInput"
          [] t = SWITCH -> "Switch"
          [] t = TEXT -> "Text"
          [] t = SCROLLABLE_VIEW -> "ScrollView"
          [] t \in {HEADER, TOPBAR} -> "Header"
          [] t = SAFEAREAVIEW -> "SafeAreaView"
          [] OTHER -> "View"

\* mapping.additionalImports
AdditionalImports(componentType) ==
    CASE componentType = TEXT -> {"Text"}
      [] componentType \in {VIEW, ICON, SVG} -> {"View"}
      [] componentType = SCROLLABLE_VIEW -> {"ScrollView"}
      [] componentType = HEADER -> {"TouchableOpacity"}
      [] componentType = SAFEAREAVIEW -> {"SafeAreaView"}
      [] OTHER -> {}

\* mapping.hasChildren
HasChildrenFlag(componentType) ==
    componentType \in {CARD, TOUCHABLE_CARD, VIEW, SCROLLABLE_VIEW, SAFEAREAVIEW}

BackgroundStyle(key, node) ==
    IF node.styles.backgroundColor # <<>>
    THEN PJson(key, JsonObject(Member("backgroundColor", JsonString(node.styles.backgroundColor))))
    ELSE <<>>

\* the SAFEAREAVIEW style: flex, the spread layout style with backgroundColor
\* overwritten in place, paddingHorizontal
SafeAreaStyle(node) ==
    LET base == buildLayoutStyle(node)
        white == Member("backgroundColor", JsonString(Chars("#FFFFFF")))[1]
        bgKey == JsonString(Chars("backgroundColor")) \o <<":">>
        hasBg == \E i \in 1..Len(base) : StartsWith(base[i], bgKey)
        spread == [i \in 1..Len(base) |-> IF StartsWith(base[i], bgKey) THEN white ELSE base[i]]
    IN  JsonObject(Member("flex", <<"1">>) \o spread
                   \o (IF hasBg THEN <<>> ELSE <<white>>)
                   \o Member("paddingHorizontal", Chars("32")))

\* mapping.propMapper(node): the defined props in insertion order
propMapper(node) ==
    LET t == node.componentType
        pr == node.props
        st == node.styles
        fn == Chars("(value) => {}")
        name == Or2(node.componentName, Chars("option"))
        layoutStyle == buildLayoutStyle(node)
        leftNode == findChildNode(node, "left")
        rightNode == findChildNode(node, "right")
        backNode == findChildNode(node, "back")
        titleNode == findChildNode(node, "title")
    IN  CASE t = BUTTON ->
               POptStr("text", node.text)
               \o PStr("variant", Chars(mapButtonVariant(node.styleHints.variant)))
               \o PStr("size", Chars(IF node.styleHints.size # "" THEN node.styleHints.size
                                     ELSE "md"))
               \o POptTrue("disabled", pr.disabled)
               \o POptStr("leftIcon", pr.leftIcon)
               \o POptStr("rightIcon", pr.rightIcon)
               \o PStr("onPress", Chars("() => {}"))
               \o BackgroundStyle("buttonStyle", node)
          [] t = CARD ->
               PStr("variant", Chars(mapCardVariant(IF pr.variant # "" THEN pr.variant
                                                    ELSE node.styleHints.variant)))
               \o PStr("padding", Chars(IF pr.padding # "" THEN pr.padding ELSE "md"))
               \o PressHandler(node)
               \o BackgroundStyle("containerStyle", node)
          [] t = TOUCHABLE_CARD ->
               PStr("variant", Chars(mapCardVariant(IF pr.variant # "" THEN pr.variant
                                                    ELSE "elevated")))
               \o PStr("padding", Chars(IF pr.padding # "" THEN pr.padding ELSE "md"))
               \o PStr("onPress", Chars("() => {}"))
          [] t = CHIP ->
               PStr("text", node.text)
               \o PBool("selected", pr.selected = "true")
               \o PStr("mode", Chars(IF node.styleHints.variant = "outline" THEN "outlined"
                                     ELSE "flat"))
               \o POptStr("icon", pr.icon)
               \o POptTrue("disabled", pr.disabled)
               \o PressHandler(node)
          [] t = CHECKBOX ->
               PBool("checked", pr.checked = "true")
               \o PStr("onChange", fn)
               \o POptStr("label", Or2(pr.label, node.text))
               \o POptTrue("disabled", pr.disabled)
          [] t = RADIO ->
               PJson("options",
                     <<"[">> \o JsonObject(
                         Member("label", JsonString(Or3(pr.label, node.text, Chars("Option"))))
                         \o Member("value", JsonString(name))) \o <<"]">>)
               \o (IF pr.selected = "true" THEN PStr("value", name) ELSE <<>>)
               \o PStr("onChange", fn)
               \o POptTrue("disabled", pr.disabled)
          [] t = DROPDOWN ->
               PJson("data", Chars("[]"))
               \o PStr("onChange", fn)
               \o PStr("placeholder", Or3(node.text, pr.placeholder, Chars("Select Option")))
               \o POptStr("label", Or2(node.title, pr.label))
               \o POptTrue("disabled", pr.disabled)
          [] t = LISTITEM ->
               PStr("title", Or3(node.text, node.title, Chars("List Item")))
               \o POptStr("subtitle", node.subtitle)
               \o PressHandler(node)
               \o POptTrue("disabled", pr.disabled)
          [] t = AVATAR ->
               POptStr("name", node.text)
               \o PStr("size", Chars(mapAvatarSize(node.styleHints.size)))
               \o PressHandler(node)
               \o BackgroundStyle("containerStyle", node)
          [] t = SPACER -> PJson("size", <<"0">>)
          [] t = INPUT ->
               PStr("placeholder", Or2(node.text, Chars("Enter text")))
               \o POptStr("label", node.title)
               \o PStr("onChangeText", Chars("(text) => {}"))
               \o POptTrue("disabled", pr.disabled)
          [] t = SEARCHABLE_INPUT ->
               PStr("value", <<>>)
               \o PStr("onChangeText", Chars("(text) => {}"))
               \o PStr("placeholder", Or2(node.text, Chars("Search...")))
               \o POptTrue("disabled", pr.disabled)
          [] t = SWITCH ->
               PBool("value", pr.checked = "true")
               \o PStr("onValueChange", fn)
               \o POptStr("label", Or2(pr.label, node.text))
               \o POptTrue("disabled", pr.disabled)
          [] t = TEXT ->
               IF st = NoStyles THEN <<>>
               ELSE PJson("style", JsonObject(
                        Opt(st.textColor # <<>>, "color", JsonString(st.textColor))
                        \o Opt(st.fontSize # 0, "fontSize", NumStr(st.fontSize))
                        \o Opt(st.fontWeight # 0, "fontWeight", NumStr(st.fontWeight))
                        \o Opt(st.fontFamily # <<>>, "fontFamily", JsonString(st.fontFamily))))
          [] t = VIEW ->
               IF layoutStyle # <<>> THEN PJson("style", JsonObject(layoutStyle)) ELSE <<>>
          [] t = SCROLLABLE_VIEW ->
               (IF layoutStyle # <<>> THEN PJson("contentContainerStyle", JsonObject(layoutStyle))
                ELSE <<>>)
               \o PStr("backgroundColor", Chars("#FFFFFF"))
               \o PJson("paddingHorizontal", Chars("24"))
          [] t = HEADER ->
               PStr("title", IF titleNode # <<>> /\ titleNode[1].text # <<>>
                             THEN titleNode[1].text ELSE Chars("Header"))
               \o PStr("backgroundColor", Or2(st.backgroundColor, Chars("#FFFFFF")))
               \o PBool("showBackButton", backNode # <<>>)
               \o (IF backNode # <<>> THEN PStr("onBackPress", Chars("() => navigation.goBack()"))
                   ELSE <<>>)
               \o (IF leftNode # <<>>
                   THEN PStr("leftAction", Chars("(<Menu size={24} color=\"#000\" />)"))
                   ELSE <<>>)
               \o (IF rightNode # <<>>
                   THEN PStr("rightAction", Chars("(<TouchableOpacity onPress={() => {}}><Menu size={24} color=\"#000\" /></TouchableOpacity>)"))
                   ELSE <<>>)
               \o (IF st.borderColor # <<>>
                   THEN PJson("containerStyle", JsonObject(
                            Member("borderBottomWidth", <<"1">>)
                            \o Member("borderBottomColor", JsonString(st.borderColor))))
                   ELSE <<>>)
          [] t = TOPBAR -> POptStr("title", Or2(node.text, node.title))
          [] t = SAFEAREAVIEW -> PJson("style", SafeAreaStyle(node))
          [] t = ICON ->
               PJson("style", JsonObject(
                   Member("width", Chars("24")) \o Member("height", Chars("24"))
                   \o Member("backgroundColor",
                             JsonString(Or2(st.backgroundColor, Chars("#E5E7EB"))))
                   \o Member("borderRadius",
                             IF st.borderRadius # Absent /\ st.borderRadius # 0
                             THEN NumStr(st.borderRadius) ELSE <<"4">>)))
          [] OTHER ->
               PJson("style", JsonObject(
                   Member("width", Chars("24")) \o Member("height", Chars("24"))
                   \o Member("backgroundColor", JsonString(Chars("#E5E7EB")))))

-----------------------------------------------------------------------------
(* Code generator (code-generator.ts)                                       *)

RECURSIVE Repeat(_, _)
Repeat(s, n) == IF n = 0 THEN <<>> ELSE s \o Repeat(s, n - 1)

RECURSIVE escapeText(_)
escapeText(text) ==
    IF text = <<>> THEN <<>>
    ELSE (CASE Head(text) = "&" -> Chars("&amp;")
            [] Head(text) = "<" -> Chars("&lt;")
            [] Head(text) = ">" -> Chars("&gt;")
            [] Head(text) = "\"" -> Chars("&quot;")
            [] Head(text) = "\n" -> <<" ">>
            [] OTHER -> <<Head(text)>>) \o escapeText(Tail(text))

\* one entry of propsArr
PropEntry(p) ==
    LET key == Chars(p.key)
    IN  CASE p.kind = "string" ->
               IF \/ StartsWith(p.v, Chars("()"))
                  \/ StartsWith(p.v, Chars("(val"))
                  \/ StartsWith(p.v, Chars("(text"))
                  \/ StartsWith(p.v, Chars("(<"))
               THEN key \o Chars("={") \o p.v \o <<"}">>
               ELSE key \o Chars("=\"") \o p.v \o <<"\"">>
          [] p.kind = "boolean" ->
               IF p.v # <<>> THEN key ELSE key \o Chars("={false}")
          [] OTHER -> key \o Chars("={") \o p.v \o <<"}">>

LineLimit == 60

generatePropsString(props) ==
    LET propsArr == [i \in 1..Len(props) |-> PropEntry(props[i])]
    IN  IF props = <<>> THEN <<>>
        ELSE IF Len(Join(propsArr, <<" ">>)) < LineLimit
             THEN <<" ">> \o Join(propsArr, <<" ">>)
             ELSE Chars("\n  ") \o Join(propsArr, Chars("\n  ")) \o <<"\n">>

\* generateComponent returns the JSX and the two import sets after its adds
RECURSIVE generateComponent(_, _, _, _)
RECURSIVE GenerateChildren(_, _, _, _, _, _)
generateComponent(node, depth, usedSet, rnSet) ==
    LET indent == Repeat(Chars("  "), depth)
        t == node.componentType
        componentName == ComponentOf(node)
        isRn == componentName \in AdditionalImports(t) \/ componentName = "View"
        used1 == IF isRn THEN usedSet ELSE usedSet \cup {componentName}
        rn1 == (IF isRn THEN rnSet \cup {componentName} ELSE rnSet)
               \cup AdditionalImports(t)
        propsStr == generatePropsString(propMapper(node))
        kids == GenerateChildren(node, 1, depth, used1, rn1, <<>>)
    IN  IF ~getComponentMapping(t)
        THEN [code |-> indent \o Chars("<View />"), usedComponents |-> usedSet,
              rnImports |-> rnSet \cup {"View"}]
        ELSE IF t = TEXT
        THEN [code |-> indent \o Chars("<Text") \o propsStr \o <<">">>
                       \o escapeText(node.text) \o Chars("</Text>"),
              usedComponents |-> used1, rnImports |-> rn1]
        ELSE IF HasChildrenFlag(t) /\ node.children # <<>>
        THEN [code |-> indent \o <<"<">> \o Chars(componentName) \o propsStr \o Chars(">\n")
                       \o Join(kids.codes, <<"\n">>) \o <<"\n">> \o indent \o Chars("</")
                       \o Chars(componentName) \o <<">">>,
              usedComponents |-> kids.usedComponents, rnImports |-> kids.rnImports]
        ELSE [code |-> indent \o <<"<">> \o Chars(componentName) \o propsStr \o Chars(" />"),
              usedComponents |-> used1, rnImports |-> rn1]

\* the tree node with its text deleted along with props._textContent
DeleteTextContentOfNode(node) == [node EXCEPT !.text = <<>>]

\* the tree node after `delete props._textContent`: props is the object the
\* mapper has just built, the node keeps its fields
DeleteTextContent(node) == node

\* the tree as generateComponent(node, ...) leaves it
RECURSIVE TreeAfterEmit(_)
TreeAfterEmit(node) ==
    IF ~getComponentMapping(node.componentType) THEN node
    ELSE IF node.componentType = TEXT THEN DeleteTextContent(node)
    ELSE IF HasChildrenFlag(node.componentType)
    THEN [node EXCEPT !.children = [i \in DOMAIN node.children |->
                                       TreeAfterEmit(node.children[i])]]
    ELSE node

\* a spacer after every VIEW child, the last one included
ShouldAddSpacerAfterLast(child, isLast) == child.componentType = VIEW

\* shouldAddSpacer
ShouldAddSpacer(child, isLast) == ~isLast /\ child.componentType = VIEW

\* node.children.map(...) from index i on, threading the import sets
GenerateChildren(node, i, depth, usedSet, rnSet, codes) ==
    IF i > Len(node.children)
    THEN [codes |-> codes, usedComponents |-> usedSet, rnImports |-> rnSet]
    ELSE LET child == node.children[i]
             gap == IF node.layout.gap = Absent THEN 0 ELSE node.layout.gap
             isHorizontal == node.layout.direction = "horizontal"
             c == generateComponent(child, depth + 1, usedSet, rnSet)
             isLast == i = Len(node.children)
             shouldAddSpacer == ShouldAddSpacer(child, isLast)
             spacerProps == IF isHorizontal
                            THEN Chars("horizontal size={") \o NumStr(gap) \o <<"}">>
                            ELSE Chars("size={12}")
             childCode == IF shouldAddSpacer
                          THEN c.code \o <<"\n">> \o Repeat(Chars("  "), depth + 1)
                               \o Chars("<Spacer ") \o spacerProps \o Chars(" />")
                          ELSE c.code
         IN  GenerateChildren(node, i + 1, depth,
                 IF shouldAddSpacer THEN c.usedComponents \cup {"Spacer"}
                 ELSE c.usedComponents,
                 c.rnImports, Append(codes, childCode))

\* Array.from(set).sort(): the names the generator can add, in code-unit order
ImportOrder ==
    <<"Avatar", "Button", "Card", "Checkbox", "Chip", "Dropdown", "Header", "ListItem",
      "RadioGroup", "SafeAreaView", "ScrollView", "SearchableInput", "Spacer", "Switch",
      "Text", "TextInput", "TouchableOpacity", "View">>

RECURSIVE SortedNames(_, _)
SortedNames(names, i) ==
    IF i > Len(ImportOrder) THEN <<>>
    ELSE (IF ImportOrder[i] \in names THEN <<Chars(ImportOrder[i])>> ELSE <<>>)
         \o SortedNames(names, i + 1)

generateImports(usedSet, rnSet, fullSourceCode) ==
    Join(<<Chars("import React from 'react';")>>
         \o (IF rnSet # {}
             THEN <<Chars("import { ") \o Join(SortedNames(rnSet, 1), Chars(", "))
                    \o Chars(" } from 'react-native';")>>
             ELSE <<>>)
         \o (IF Contains(fullSourceCode, Chars("<LinearGradient"))
             THEN <<Chars("import { LinearGradient } from 'expo-linear-gradient';")>>
             ELSE <<>>)
         \o (IF usedSet # {}
             THEN <<Chars("import { ") \o Join(SortedNames(usedSet, 1), Chars(", "))
                    \o Chars(" } from '../components';")>>
             ELSE <<>>)
         \o (IF Contains(fullSourceCode, Chars("<Menu"))
             THEN <<Chars("import { Menu } from 'lucide-react-native';")>>
             ELSE <<>>),
         <<"\n">>)

ScreenHead == Chars("\n\nexport default function GeneratedScreen({ navigation }: any) {\n  return (\n")

ScreenTail == Chars("\n  );\n}\n")

\* the template with the plain signature
generateScreenTemplatePlain(imports, componentCode) ==
    imports \o Chars("\n\nexport default function GeneratedScreen() {\n  return (\n")
    \o componentCode \o ScreenTail

generateScreenTemplate(imports, componentCode) ==
    imports \o ScreenHead \o componentCode \o ScreenTail

\* import sets kept at module level and never cleared
NewSetCarried(previous) == previous

\* fresh import sets for one call of generateCode
NewSet(previous) == {}

RootDepth == 2

\* lines 257-259 of generateCode, given what generateComponent returned
ScreenOf(g) ==
    [code |-> generateScreenTemplate(
                  generateImports(g.usedComponents, g.rnImports, g.code), g.code),
     usedComponents |-> g.usedComponents, rnImports |-> g.rnImports]

\* generateCode(uiTree): the file text and the sets the call filled
generateCode(tree, previousUsed, previousRn) ==
    ScreenOf(generateComponent(tree, RootDepth, NewSet(previousUsed), NewSet(previousRn)))

-----------------------------------------------------------------------------
(* JSX syntax: a scanner for the element syntax the generator emits         *)

Letters ==
    {"a","b","c","d","e","f","g","h","i","j","k","l","m","n","o","p","q","r","s","t","u",
     "v","w","x","y","z"} \cup Upper

\* first index >= i whose character is not in the set (Len + 1: none)
RECURSIVE SkipWhile(_, _, _)
SkipWhile(s, i, set) ==
    IF i > Len(s) \/ s[i] \notin set THEN i ELSE SkipWhile(s, i + 1, set)

\* first index >= i whose character is in the set (Len + 1: none)
RECURSIVE SkipUntil(_, _, _)
SkipUntil(s, i, set) ==
    IF i > Len(s) \/ s[i] \in set THEN i ELSE SkipUntil(s, i + 1, set)

\* index of the quote closing a JavaScript string opened before i (0: none)
RECURSIVE JsStringEnd(_, _)
JsStringEnd(s, i) ==
    LET j == SkipUntil(s, i, {"\"", "\\", "\n"})
    IN  IF j > Len(s) \/ s[j] = "\n" THEN 0
        ELSE IF s[j] = "\"" THEN j
        ELSE JsStringEnd(s, j + 2)

\* index of the brace closing an expression container, from i at nesting
\* depth d (0: none); braces inside string literals do not count
RECURSIVE ExpressionEnd(_, _, _)
ExpressionEnd(s, i, d) ==
    LET j == SkipUntil(s, i, {"{", "}", "\""})
        q == JsStringEnd(s, j + 1)
    IN  IF j > Len(s) THEN 0
        ELSE IF s[j] = "{" THEN ExpressionEnd(s, j + 1, d + 1)
        ELSE IF s[j] = "}" THEN (IF d = 1 THEN j ELSE ExpressionEnd(s, j + 1, d - 1))
        ELSE IF q = 0 THEN 0
        ELSE ExpressionEnd(s, q + 1, d)

\* element content from i with the open elements on the stack; attributes
\* of the tag called name from i
RECURSIVE ScanChildren(_, _, _)
RECURSIVE ScanAttributes(_, _, _, _)
ScanChildren(s, i, stack) ==
    LET lt == SkipUntil(s, i, {"<", "{", "}", ">"})
        nameEnd == SkipWhile(s, lt + 1, Letters)
        closeEnd == SkipWhile(s, lt + 2, Letters)
    IN  IF lt > Len(s) THEN stack = <<>>
        ELSE IF s[lt] # "<" \/ lt = Len(s) THEN FALSE
        ELSE IF s[lt + 1] = "/"
        THEN /\ closeEnd <= Len(s) /\ s[closeEnd] = ">"
             /\ stack # <<>>
             /\ SubSeq(s, lt + 2, closeEnd - 1) = stack[Len(stack)]
             /\ ScanChildren(s, closeEnd + 1, SubSeq(stack, 1, Len(stack) - 1))
        ELSE /\ nameEnd > lt + 1
             /\ ScanAttributes(s, nameEnd, stack, SubSeq(s, lt + 1, nameEnd - 1))

ScanAttributes(s, i, stack, name) ==
    LET j == SkipWhile(s, i, Whitespace)
        k == SkipWhile(s, j, Letters)
        q == SkipUntil(s, k + 2, {"\""})
        e == ExpressionEnd(s, k + 2, 1)
    IN  IF j > Len(s) THEN FALSE
        ELSE IF s[j] = ">" THEN ScanChildren(s, j + 1, Append(stack, name))
        ELSE IF s[j] = "/"
        THEN j < Len(s) /\ s[j + 1] = ">" /\ ScanChildren(s, j + 2, stack)
        ELSE IF k = j \/ (j = i /\ s[i - 1] \notin Whitespace) THEN FALSE
        ELSE IF k > Len(s) THEN FALSE
        ELSE IF s[k] # "=" THEN ScanAttributes(s, k, stack, name)
        ELSE IF k = Len(s) THEN FALSE
        ELSE IF s[k + 1] = "\"" THEN q <= Len(s) /\ ScanAttributes(s, q + 1, stack, name)
        ELSE IF s[k + 1] = "{" THEN e # 0 /\ ScanAttributes(s, e + 1, stack, name)
        ELSE FALSE

\* the JSX of a screen is well formed: tags nest and match, attribute values
\* are delimited, element text holds no brace or angle bracket
WellFormedJsx(s) == ScanChildren(s, 1, <<>>)

-----------------------------------------------------------------------------
(* Input documents                                                          *)

\* the parsed input.json: its document field (<<>>: absent) and the top-level
\* object read as a node
WithDocument(root) ==
    [document |-> <<FigmaNode("0:0", Chars("Document"), "DOCUMENT",
                      <<FigmaNode("0:1", Chars("Page 1"), "CANVAS", <<root>>)>>)>>,
     self |-> FigmaNode("", Chars("Untitled"), "", <<>>)]

WithoutDocument(root) == [document |-> <<>>, self |-> root]

Red == Solid(100, 0, 0, 100, 100, TRUE)

LabelledButton(id, characters) ==
    FigmaNode(id, Chars("Submit_BUTTON"), "FRAME",
              <<TextNode(id \o ":1", Chars("Label"), characters)>>)

InfoCard(id, characters) ==
    FigmaNode(id, Chars("Info_CARD"), "FRAME",
              <<TextNode(id \o ":1", Chars("Body"), characters)>>)

LoginScreen(tag) ==
    [FigmaNode("1:1", Chars("Login_VIEW"), "FRAME",
         <<TextNode("1:2", Chars("Welcome"), Chars("Welcome")),
           [LabelledButton("1:3", Chars("Sign In")) EXCEPT !.fills = <<Red>>],
           InfoCard("1:4", Chars("Terms & <conditions>"))>>)
     EXCEPT !.layoutMode = "VERTICAL", !.itemSpacing = 8, !.pluginData = tag]

ProfileCard(tag) ==
    [FigmaNode("2:1", Chars("Profile_TOUCHABLE_CARD"), "FRAME",
         <<TextNode("2:2", Chars("Name"), Chars("Ada")),
           TextNode("2:3", Chars("Role"), Chars("Admin"))>>)
     EXCEPT !.pluginData = tag]

TopHeader ==
    FigmaNode("3:1", Chars("Top_HEADER"), "FRAME",
        <<FigmaNode("3:2", Chars("Container_SVG"), "FRAME", <<>>),
          FigmaNode("3:3", Chars("Button_SVG"), "FRAME", <<>>)>>)

NullFillButton == [LabelledButton("4:1", Chars("Go")) EXCEPT !.fills = <<NullPaint>>]

\* the documents the pipeline is run on, one after the other
Docs ==
    {WithDocument(LoginScreen(0)), WithDocument(LoginScreen(1)),
     WithoutDocument(ProfileCard(0)), WithoutDocument(ProfileCard(1)),
     WithDocument(TopHeader),
     WithDocument(FigmaNode("5:1", Chars("Frame 1"), "FRAME", <<>>)),
     WithoutDocument(FigmaNode("", Chars("Untitled"), "", <<>>)),
     WithDocument(NullFillButton),
     WithDocument(LabelledButton("6:1", Chars("say \"hi\""))),
     WithDocument(LabelledButton("6:2", Chars("()}"))),
     WithDocument(InfoCard("7:1", Chars("a{b")))}

\* generated documents: a root frame over at most one child, the child a leaf
\* or a frame over up to MaxKids leaves; every node has its own id
MaxKids == 2

LeafKinds == <<"named", "anonymous", "vector", "styled", "back">>

Leaf(kind, id) ==
    CASE kind = "named" -> TextNode(id, Chars("Title"), Chars("Hello"))
      [] kind = "anonymous" -> TextNode(id, <<>>, Chars("Only"))
      [] kind = "vector" -> FigmaNode(id, Chars("Arrow"), "VECTOR", <<>>)
      [] kind = "back" -> FigmaNode(id, Chars("Back_BACKBUTTON"), "FRAME", <<>>)
      [] OTHER -> [FigmaNode(id, Chars("Box_VIEW"), "FRAME", <<>>) EXCEPT !.fills = <<Red>>]

KidSeqs == UNION {[1..m -> DOMAIN LeafKinds] : m \in 0..MaxKids}

MidNames == {Chars("W_VIEW"), Chars("W_TEXT"), Chars("W_ BAR"), Chars("Plain")}

Mid(name, kinds) ==
    FigmaNode("m", name, "FRAME",
              [i \in 1..Len(kinds) |-> Leaf(LeafKinds[kinds[i]], "k" \o ToString(i))])

ChildPool ==
    {Leaf(LeafKinds[k], "m") : k \in DOMAIN LeafKinds}
    \cup {Mid(name, kinds) : name \in MidNames, kinds \in KidSeqs}

RootNames ==
    {Chars("R_VIEW"), Chars("R_SCROLLABLE_VIEW"), Chars("R_SAFEAREAVIEW"), Chars("R_HEADER"),
     Chars("R_TOPBAR"), Chars("R_CARD"), Chars("R_TOUCHABLE_CARD"), Chars("R_TEXT"),
     Chars("R_BUTTON"), Chars("R_CHIP"), Chars("R_INPUT"), Chars("R_SEARCHABLE_INPUT"),
     Chars("R_DROPDOWN"), Chars("R_CHECKBOX"), Chars("R_RADIO"), Chars("R_SWITCH"),
     Chars("R_ICON"), Chars("R_SVG"), Chars("R_AVATAR"), Chars("R_LISTITEM"),
     Chars("R_SPACER"), Chars("R_BACKBUTTON"), Chars("R_FOO"), Chars("Screen")}

GenDocs ==
    {WithDocument([FigmaNode("r", name, "FRAME", kids) EXCEPT !.layoutMode = mode]) :
        name \in RootNames, mode \in {"", "VERTICAL"},
        kids \in {<<>>} \cup {<<c>> : c \in ChildPool}}

\* positioned documents: a root frame over three vectors, each with or without
\* a bounding box at coordinates up to MaxCoord, the second visible or hidden
MaxCoord == 2

Boxes == {NoBox} \cup {Box(x, y) : x \in 0..MaxCoord, y \in 0..MaxCoord}

Placed(id, name, box, vis) ==
    [FigmaNode(id, Chars(name), "VECTOR", <<>>)
        EXCEPT !.absoluteBoundingBox = box, !.visible = vis]

OrderDocs ==
    {WithDocument([FigmaNode("r", Chars("R_VIEW"), "FRAME",
                             <<Placed("k1", "A", b1, TRUE), Placed("k2", "B", b2, vis),
                               Placed("k3", "C", b3, TRUE)>>)
                      EXCEPT !.layoutMode = mode]) :
        b1 \in Boxes, b2 \in Boxes, b3 \in Boxes, vis \in BOOLEAN,
        mode \in {"", "VERTICAL", "HORIZONTAL"}}

\* stacked documents: a root frame over up to MaxSiblings children, each a
\* vector, a panel (a frame named *_VIEW over a vector) or a panel over a
\* panel and a vector
MaxSiblings == 3

Panel(id, kids) == FigmaNode(id, Chars("W_VIEW"), "FRAME", kids)

Stacked(kind, id) ==
    CASE kind = "vector" -> FigmaNode(id, Chars("Arrow"), "VECTOR", <<>>)
      [] kind = "panel" ->
             Panel(id, <<FigmaNode(id \o "a", Chars("Arrow"), "VECTOR", <<>>)>>)
      [] OTHER ->
             Panel(id, <<Panel(id \o "a", <<FigmaNode(id \o "aa", Chars("Arrow"),
                                                      "VECTOR", <<>>)>>),
                         FigmaNode(id \o "b", Chars("Arrow"), "VECTOR", <<>>)>>)

StackKinds == <<"vector", "panel", "nested">>

StackedRoots ==
    {Chars("R_VIEW"), Chars("R_CARD"), Chars("R_SCROLLABLE_VIEW"), Chars("R_SAFEAREAVIEW"),
     Chars("R_HEADER"), Chars("R_FOO")}

StackedDocs ==
    {WithDocument([FigmaNode("r", name, "FRAME",
                             [i \in 1..Len(kinds) |->
                                 Stacked(StackKinds[kinds[i]], "k" \o ToString(i))])
                      EXCEPT !.layoutMode = mode, !.itemSpacing = gap]) :
        name \in StackedRoots, mode \in {"", "VERTICAL", "HORIZONTAL"}, gap \in {Absent, 8},
        kinds \in UNION {[1..m -> DOMAIN StackKinds] : m \in 1..MaxSiblings}}

\* painted documents: a root frame with at most one fill and one stroke, alone
\* or over a wrapped text with at most one fill; colour alpha and paint opacity
\* are each none, half or full
Levels100 == {0, 50, 100}

Paints ==
    {Solid(100, 0, 50, alpha, opacity, vis) :
        alpha \in Levels100, opacity \in Levels100, vis \in BOOLEAN}

PaintLists == {<<>>} \cup {<<p>> : p \in Paints}

Labelled(fills) ==
    FigmaNode("w", Chars("Label_TEXT"), "FRAME",
              <<[TextNode("t", Chars("Title"), Chars("Hello")) EXCEPT !.fills = fills]>>)

PaintedDocs ==
    {WithDocument([FigmaNode("r", Chars("R_VIEW"), "FRAME", kids)
                      EXCEPT !.fills = fills, !.strokes = strokes]) :
        fills \in PaintLists, strokes \in PaintLists,
        kids \in {<<>>} \cup {<<Labelled(f)>> : f \in PaintLists}}

\* named documents: a root frame over one childless frame or vector whose
\* name is any string of at most MaxNameLen characters of NameAlphabet
MaxNameLen == 4

NameAlphabet == {"A", "b", "_", " "}

Names == UNION {[1..n -> NameAlphabet] : n \in 0..MaxNameLen}

NamedDocs ==
    {WithDocument(FigmaNode("r", Chars("R_VIEW"), "FRAME", <<FigmaNode("n", name, type, <<>>)>>)) :
        name \in Names, type \in {"FRAME", "VECTOR"}}

\* nested documents: a document over a canvas over up to MaxTops nodes, each
\* a text or a frame or page, named as a component or not, that is empty or
\* holds a text or a card
MaxTops == 2

TopNames == {Chars("Frame 1"), Chars("A_VIEW"), Chars("a_b")}

Top(id) ==
    {TextNode(id, Chars("Title"), Chars("Hello"))}
    \cup {FigmaNode(id, name, type, kids) :
              name \in TopNames, type \in {"FRAME", "PAGE"},
              kids \in {<<>>, <<TextNode(id \o "t", Chars("Title"), Chars("Hello"))>>,
                        <<FigmaNode(id \o "c", Chars("Inner_CARD"), "FRAME", <<>>)>>}}

TopSeqs ==
    UNION {{tops \in [1..n -> UNION {Top("s" \o ToString(i)) : i \in 1..n}] :
               \A i \in 1..n : tops[i] \in Top("s" \o ToString(i))} : n \in 1..MaxTops}

NestedDocs ==
    {[document |-> <<FigmaNode("0:0", Chars("Document"), "DOCUMENT",
                        <<FigmaNode("0:1", canvas, "CANVAS", tops)>>)>>,
      self |-> FigmaNode("", Chars("Untitled"), "", <<>>)] :
        canvas \in {Chars("Page 1"), Chars("Page_MAIN")}, tops \in TopSeqs}

\* widget documents: a root button, chip, card or touchable card with its
\* fills, strokes, effects and opacity, alone, over a text, or over a text
\* and an icon (plain, named as a tick, or hidden)
Grey(r, g, b, vis) == Solid(r, g, b, 100, 100, vis)

Gradient == [Red EXCEPT !.type = "GRADIENT_LINEAR"]

WidgetFills ==
    {<<>>, <<Red>>, <<Grey(50, 50, 50, TRUE)>>, <<Grey(50, 54, 52, TRUE)>>,
     <<Grey(50, 55, 50, TRUE)>>, <<Grey(50, 50, 50, FALSE), Red>>, <<Gradient>>}

WidgetStrokes == {<<>>, <<Red>>, <<[Red EXCEPT !.visible = FALSE]>>, <<Gradient>>}

WidgetEffects ==
    {<<>>, <<Effect("DROP_SHADOW", TRUE)>>, <<Effect("DROP_SHADOW", FALSE)>>,
     <<Effect("INNER_SHADOW", TRUE)>>, <<Effect("INNER_SHADOW", TRUE), Effect("DROP_SHADOW", TRUE)>>}

WidgetOpacities == {100, 90, 89}

WidgetLabel == TextNode("t", Chars("Label"), Chars("Go"))

WidgetKids ==
    {<<>>, <<WidgetLabel>>,
     <<WidgetLabel, FigmaNode("i", Chars("Star_ICON"), "FRAME", <<>>)>>,
     <<WidgetLabel, FigmaNode("i", Chars("Check"), "VECTOR", <<>>)>>,
     <<WidgetLabel, [FigmaNode("i", Chars("Star_ICON"), "FRAME", <<>>) EXCEPT !.visible = FALSE]>>}

WidgetNames ==
    {Chars("R_BUTTON"), Chars("R_CHIP"), Chars("R_CARD"), Chars("R_TOUCHABLE_CARD")}

WidgetDocs ==
    {WithDocument([FigmaNode("r", name, "FRAME", kids)
                      EXCEPT !.fills = fills, !.strokes = strokes, !.effects = effects,
                             !.opacity = opacity]) :
        name \in WidgetNames, fills \in WidgetFills, strokes \in WidgetStrokes,
        effects \in WidgetEffects, opacity \in WidgetOpacities, kids \in WidgetKids}

\* button documents: a root button over a text, with or without a layer name
\* and a bounding box, followed by up to MaxIcons children, each a vector, a
\* frame named as an icon, an instance, a hidden vector or a plain frame,
\* without a box or left or right of the text
MaxIcons == 2

ButtonTexts ==
    {[TextNode("t", name, Chars("Sign In")) EXCEPT !.absoluteBoundingBox = box] :
        name \in {<<>>, Chars("Label")}, box \in {NoBox, Box(1, 0)}}

IconKinds == <<"vector", "frame", "instance", "hidden", "plain">>

ButtonChild(kind, id, box) ==
    [(CASE kind = "vector" -> FigmaNode(id, Chars("ArrowRight_ICON"), "VECTOR", <<>>)
        [] kind = "frame" -> FigmaNode(id, Chars("Star_SVG"), "FRAME", <<>>)
        [] kind = "instance" -> FigmaNode(id, Chars("my icon"), "INSTANCE", <<>>)
        [] kind = "hidden" ->
               [FigmaNode(id, Chars("Ghost"), "VECTOR", <<>>) EXCEPT !.visible = FALSE]
        [] OTHER -> FigmaNode(id, Chars("Plain"), "FRAME", <<>>))
     EXCEPT !.absoluteBoundingBox = box]

IconBoxes == {NoBox, Box(0, 0), Box(2, 0)}

ButtonChildSeqs ==
    UNION {{[i \in 1..n |-> ButtonChild(IconKinds[kinds[i]], "i" \o ToString(i), boxes[i])] :
               kinds \in [1..n -> DOMAIN IconKinds], boxes \in [1..n -> IconBoxes]} :
           n \in 0..MaxIcons}

ButtonDocs ==
    {WithoutDocument(FigmaNode("r", Chars("Login_BUTTON"), "FRAME", <<text>> \o icons)) :
        text \in ButtonTexts, icons \in ButtonChildSeqs}

\* toggle documents: a root checkbox or radio over up to MaxToggleKids
\* children, each a frame named _TRUE or _FALSE or one of three texts, the
\* third without characters
MaxToggleKids == 3

ToggleKinds == <<"true", "false", "accept", "decline", "bare">>

ToggleChild(kind, id) ==
    CASE kind = "true" -> FigmaNode(id, Chars("_TRUE"), "FRAME", <<>>)
      [] kind = "false" -> FigmaNode(id, Chars("_FALSE"), "FRAME", <<>>)
      [] kind = "accept" -> TextNode(id, Chars("Label"), Chars("Accept"))
      [] kind = "decline" -> TextNode(id, Chars("Other"), Chars("Decline"))
      [] OTHER -> TextNode(id, Chars("Bare"), <<>>)

ToggleDocs ==
    {WithDocument(FigmaNode("r", name, "FRAME",
                            [i \in 1..Len(kinds) |->
                                ToggleChild(ToggleKinds[kinds[i]], "k" \o ToString(i))])) :
        name \in {Chars("R_CHECKBOX"), Chars("R_RADIO")},
        kinds \in UNION {[1..n -> DOMAIN ToggleKinds] : n \in 0..MaxToggleKids}}

-----------------------------------------------------------------------------
(* The pipeline (index.ts): main() run once per process                     *)

NoRun == <<>>

\* loadFigmaJson: a new process reads input.json
LoadInput ==
    /\ pc = "idle"
    /\ \E figmaData \in Docs : input' = <<figmaData>>
    /\ pc' = "loaded"
    /\ uiTree' = NoTree
    /\ code' = <<>>
    /\ error' = ""
    /\ written' = {}
    /\ UNCHANGED <<outputJson, outputTsx, usedComponents, rnImports, remembered>>

\* const uiTree = generateUITree(figmaData); an error ends main in its catch
GenerateUITree ==
    /\ pc = "loaded"
    /\ \E r \in {generateUITree(input[1])} :
           IF r.error = ""
           THEN /\ uiTree' = r.tree
                /\ pc' = "parsed"
                /\ error' = error
           ELSE /\ error' = r.error
                /\ pc' = "failed"
                /\ uiTree' = uiTree
    /\ input' = <<InputAfterBuild(input[1])>>
    /\ UNCHANGED <<code, outputJson, outputTsx, written, usedComponents, rnImports,
                   remembered>>

\* saveOutput(uiTree): output.json holds the serialised tree
SaveOutput ==
    /\ pc = "parsed"
    /\ outputJson' = <<uiTree>>
    /\ written' = written \cup {"output.json"}
    /\ pc' = "saved"
    /\ UNCHANGED <<input, uiTree, code, error, outputTsx, usedComponents, rnImports,
                   remembered>>

\* const reactNativeCode = generateCode(uiTree)
GenerateCode ==
    /\ pc = "saved"
    /\ \E g \in {generateCode(uiTree, usedComponents, rnImports)} :
           /\ code' = g.code
           /\ usedComponents' = g.usedComponents
           /\ rnImports' = g.rnImports
    /\ uiTree' = TreeAfterEmit(uiTree)
    /\ pc' = "generated"
    /\ UNCHANGED <<input, error, outputJson, outputTsx, written, remembered>>

\* saveGeneratedCode(reactNativeCode)
SaveGeneratedCode ==
    /\ pc = "generated"
    /\ outputTsx' = code
    /\ written' = written \cup {"output.tsx"}
    /\ pc' = "done"
    /\ UNCHANGED <<input, uiTree, code, error, outputJson, usedComponents, rnImports,
                   remembered>>

\* the process ends; the run may be the one kept for comparison with later runs
Exit ==
    /\ pc \in {"done", "failed"}
    /\ pc' = "idle"
    /\ remembered' \in {remembered,
                        <<[input |-> input[1], uiTree |-> uiTree, code |-> code,
                           error |-> error]>>}
    /\ UNCHANGED <<input, uiTree, code, error, outputJson, outputTsx, written,
                   usedComponents, rnImports>>

Init ==
    /\ input = <<>>
    /\ pc = "idle"
    /\ uiTree = NoTree
    /\ code = <<>>
    /\ error = ""
    /\ outputJson = <<>>
    /\ outputTsx = <<>>
    /\ written = {}
    /\ usedComponents = {}
    /\ rnImports = {}
    /\ remembered = NoRun

Next ==
    \/ LoadInput
    \/ GenerateUITree
    \/ SaveOutput
    \/ GenerateCode
    \/ SaveGeneratedCode
    \/ Exit

Spec == Init /\ [][Next]_vars

\* one run of main() on each generated document, in a fresh working directory
InitGen ==
    /\ input \in {<<figmaData>> : figmaData \in GenDocs}
    /\ pc = "loaded"
    /\ uiTree = NoTree
    /\ code = <<>>
    /\ error = ""
    /\ outputJson = <<>>
    /\ outputTsx = <<>>
    /\ written = {}
    /\ usedComponents = {}
    /\ rnImports = {}
    /\ remembered = NoRun

NextGen ==
    \/ GenerateUITree
    \/ SaveOutput
    \/ GenerateCode
    \/ SaveGeneratedCode

SpecGen == InitGen /\ [][NextGen]_vars

\* one run of main() on each positioned document
InitOrder ==
    /\ input \in {<<figmaData>> : figmaData \in OrderDocs}
    /\ pc = "loaded"
    /\ uiTree = NoTree
    /\ code = <<>>
    /\ error = ""
    /\ outputJson = <<>>
    /\ outputTsx = <<>>
    /\ written = {}
    /\ usedComponents = {}
    /\ rnImports = {}
    /\ remembered = NoRun

SpecOrder == InitOrder /\ [][NextGen]_vars

\* one run of main() on each stacked document
InitStacked ==
    /\ input \in {<<figmaData>> : figmaData \in StackedDocs}
    /\ pc = "loaded"
    /\ uiTree = NoTree
    /\ code = <<>>
    /\ error = ""
    /\ outputJson = <<>>
    /\ outputTsx = <<>>
    /\ written = {}
    /\ usedComponents = {}
    /\ rnImports = {}
    /\ remembered = NoRun

SpecStacked == InitStacked /\ [][NextGen]_vars

\* one run of main() on each painted document
InitPainted ==
    /\ input \in {<<figmaData>> : figmaData \in PaintedDocs}
    /\ pc = "loaded"
    /\ uiTree = NoTree
    /\ code = <<>>
    /\ error = ""
    /\ outputJson = <<>>
    /\ outputTsx = <<>>
    /\ written = {}
    /\ usedComponents = {}
    /\ rnImports = {}
    /\ remembered = NoRun

SpecPainted == InitPainted /\ [][NextGen]_vars

\* one run of main() on each named document
InitNamed ==
    /\ input \in {<<figmaData>> : figmaData \in NamedDocs}
    /\ pc = "loaded"
    /\ uiTree = NoTree
    /\ code = <<>>
    /\ error = ""
    /\ outputJson = <<>>
    /\ outputTsx = <<>>
    /\ written = {}
    /\ usedComponents = {}
    /\ rnImports = {}
    /\ remembered = NoRun

SpecNamed == InitNamed /\ [][NextGen]_vars

\* one run of main() on each nested document
InitNested ==
    /\ input \in {<<figmaData>> : figmaData \in NestedDocs}
    /\ pc = "loaded"
    /\ uiTree = NoTree
    /\ code = <<>>
    /\ error = ""
    /\ outputJson = <<>>
    /\ outputTsx = <<>>
    /\ written = {}
    /\ usedComponents = {}
    /\ rnImports = {}
    /\ remembered = NoRun

SpecNested == InitNested /\ [][NextGen]_vars

\* one run of main() on each widget document
InitWidget ==
    /\ input \in {<<figmaData>> : figmaData \in WidgetDocs}
    /\ pc = "loaded"
    /\ uiTree = NoTree
    /\ code = <<>>
    /\ error = ""
    /\ outputJson = <<>>
    /\ outputTsx = <<>>
    /\ written = {}
    /\ usedComponents = {}
    /\ rnImports = {}
    /\ remembered = NoRun

SpecWidget == InitWidget /\ [][NextGen]_vars

\* one run of main() on each button document
InitButton ==
    /\ input \in {<<figmaData>> : figmaData \in ButtonDocs}
    /\ pc = "loaded"
    /\ uiTree = NoTree
    /\ code = <<>>
    /\ error = ""
    /\ outputJson = <<>>
    /\ outputTsx = <<>>
    /\ written = {}
    /\ usedComponents = {}
    /\ rnImports = {}
    /\ remembered = NoRun

SpecButton == InitButton /\ [][NextGen]_vars

\* one run of main() on each toggle document
InitToggle ==
    /\ input \in {<<figmaData>> : figmaData \in ToggleDocs}
    /\ pc = "loaded"
    /\ uiTree = NoTree
    /\ code = <<>>
    /\ error = ""
    /\ outputJson = <<>>
    /\ outputTsx = <<>>
    /\ written = {}
    /\ usedComponents = {}
    /\ rnImports = {}
    /\ remembered = NoRun

SpecToggle == InitToggle /\ [][NextGen]_vars

-----------------------------------------------------------------------------
(* Vocabulary of the properties                                             *)

RECURSIVE FigmaNodes(_)
FigmaNodes(node) ==
    {node} \cup UNION {FigmaNodes(node.children[i]) : i \in DOMAIN node.children}

RECURSIVE TreeNodes(_)
TreeNodes(node) ==
    {node} \cup UNION {TreeNodes(node.children[i]) : i \in DOMAIN node.children}

Descendants(node) == UNION {TreeNodes(node.children[i]) : i \in DOMAIN node.children}

\* where the root search starts
StartNode(figmaJson) ==
    IF figmaJson.document # <<>> THEN figmaJson.document[1] ELSE figmaJson.self

\* the Figma nodes of the input that a UITree node was built from
Sources(u) == {f \in FigmaNodes(StartNode(input[1])) : f.id = u.id}

Built == pc \in {"parsed", "saved", "generated", "done"}

Emitted == pc \in {"generated", "done"}

Frames == {"FRAME", "COMPONENT"}

\* the name matches /^[^_]+_([A-Z_]+)$/
HasSuffix(name) == IndexOf(name, "_") >= 1 /\ IsAllCaps(SliceFrom(name, IndexOf(name, "_") + 1))

\* the text after the first underscore of a name, trimmed
TypeOfName(name) == Trim(SliceFrom(name, IndexOf(name, "_") + 1))

\* the input with every field outside the whitelist cleared
RECURSIVE Whitelisted(_)
Whitelisted(node) ==
    [node EXCEPT !.pluginData = 0,
                 !.children = [i \in DOMAIN node.children |-> Whitelisted(node.children[i])]]

WhitelistedDoc(figmaJson) ==
    [document |-> [i \in DOMAIN figmaJson.document |-> Whitelisted(figmaJson.document[i])],
     self |-> Whitelisted(figmaJson.self)]

\* the JSX between the head and the tail of the screen template
JsxOf(source) ==
    LET starts == {i \in 1..Len(source) :
                      /\ i + Len(ScreenHead) - 1 <= Len(source)
                      /\ SubSeq(source, i, i + Len(ScreenHead) - 1) = ScreenHead}
        first == CHOOSE i \in starts : \A j \in starts : i <= j
    IN  SubSeq(source, first + Len(ScreenHead), Len(source) - Len(ScreenTail))

-----------------------------------------------------------------------------
(* Properties of the pipeline                                               *)

\* C1: determinism. A run on a document that agrees with the document of a
\* remembered earlier run on every whitelisted field returns the same UITree
\* and the same source text (or fails with the same error), whatever was run
\* in between.
Determinism ==
    \A i \in DOMAIN remembered :
        (pc # "idle" /\ WhitelistedDoc(remembered[i].input) = WhitelistedDoc(input[1])) =>
            /\ Built => uiTree = remembered[i].uiTree
            /\ Emitted => code = remembered[i].code
            /\ pc = "failed" => error = remembered[i].error /\ remembered[i].code = <<>>

\* C1 witness: a second run has generated its source; its input differs from
\* the remembered one only outside the whitelist, and output.tsx still holds
\* the source of another document run in between.
DeterminismWitness ==
    /\ pc = "generated"
    /\ remembered # NoRun
    /\ remembered[1].input # input[1]
    /\ WhitelistedDoc(remembered[1].input) = WhitelistedDoc(input[1])
    /\ code = remembered[1].code
    /\ outputTsx # <<>>
    /\ outputTsx # code

\* C2: generateUITree fails with NoRootComponent exactly when no node under
\* the start of the search is a component; then no tree is returned, no code
\* is generated and neither output file is written by the run.
NoRootComponentExactly ==
    (pc \notin {"idle", "loaded"}) =>
        /\ error = NoRootComponent
             <=> \A f \in FigmaNodes(StartNode(input[1])) : shouldSkipNode(f)
        /\ error = NoRootComponent =>
             pc = "failed" /\ uiTree = NoTree /\ code = <<>> /\ written = {}

\* C2 witness: a run has failed with NoRootComponent and written nothing,
\* while output.json of an earlier run is still in place.
NoRootComponentWitness ==
    /\ pc = "failed"
    /\ error = NoRootComponent
    /\ written = {}
    /\ input[1].document # <<>>
    /\ outputJson # <<>>

\* C3: NoRootComponent is the only error: a run on an input that has a root
\* component never fails.
OnlyNoRootComponent ==
    pc = "failed" => error = NoRootComponent

\* C4: the JSX of every emitted screen is well formed.
EmittedJsxWellFormed ==
    Emitted => WellFormedJsx(JsxOf(code))

-----------------------------------------------------------------------------
(* Properties of the UITree                                                 *)

\* the Figma node has more than one TEXT node below it
SeveralTexts(f) == \E a, b \in FigmaNodes(f) : a.type = "TEXT" /\ b.type = "TEXT" /\ a # b

\* the override rules the suffix rule yields to, for the UITree node u built
\* from the Figma node f
RawText(f, u) == f.type = "TEXT" /\ u.componentType = TEXT

SingleTextFrame(f, u) ==
    /\ f.type \in Frames
    /\ Len(f.children) = 1
    /\ f.children[1].type = "TEXT"
    /\ ~Includes(f.name, "_")
    /\ u.componentType = TEXT

VectorUpgrade(f, u) == f.type = "VECTOR" /\ u.componentType = ICON

TouchableRewrite(f, u) ==
    CapturedSuffix(f.name) = TOUCHABLE_CARD /\ u.componentType = CARD

TextWrapper(f, u) ==
    /\ f.type \in Frames
    /\ EndsWith(f.name, Chars("_TEXT"))
    /\ SeveralTexts(f)
    /\ u.componentType = VIEW

ClosedTypes ==
    {TEXT, VIEW, SCROLLABLE_VIEW, SAFEAREAVIEW, HEADER, TOPBAR, BUTTON, CARD, TOUCHABLE_CARD,
     CHIP, INPUT, SEARCHABLE_INPUT, DROPDOWN, CHECKBOX, RADIO, SWITCH, AVATAR, LISTITEM,
     SPACER, ICON, SVG, BACKBUTTON, UNKNOWN}

\* C6: every node of a returned UITree has a componentType of the closed set.
ClosedComponentTypes ==
    Built => \A u \in TreeNodes(uiTree) : u.componentType \in ClosedTypes

\* C6 as the code has it: the componentType is of the closed set or is the
\* text after the first underscore of the node's name, trimmed, which is then
\* made of upper-case letters and underscores only.
ClosedOrVerbatimTypes ==
    Built =>
        \A u \in TreeNodes(uiTree) :
            \/ u.componentType \in ClosedTypes
            \/ \E f \in Sources(u) :
                   /\ Includes(f.name, "_")
                   /\ IsAllCaps(TypeOfName(f.name))
                   /\ u.componentType = TypeOfName(f.name)

\* C6 witness: the root named R_FOO has been built with componentType FOO.
VerbatimTypeWitness ==
    /\ Built
    /\ uiTree.role = Chars("R_FOO")
    /\ uiTree.componentType = Chars("FOO")
    /\ uiTree.componentType \notin ClosedTypes

LeafTypes ==
    {TEXT, BUTTON, INPUT, SEARCHABLE_INPUT, ICON, SVG, CHECKBOX, RADIO, DROPDOWN, CHIP,
     AVATAR, LISTITEM, SPACER}

\* C7: no node of a leaf type has children.
NoLeafChildren ==
    Built => \A u \in TreeNodes(uiTree) : u.componentType \in LeafTypes => u.children = <<>>

\* a VIEW with no visual style, no layout, no text and no non-VIEW descendant
EmptyView(u) ==
    /\ u.componentType = VIEW
    /\ u.styles = NoStyles
    /\ u.layout = NoLayout
    /\ u.text = <<>> /\ u.title = <<>> /\ u.subtitle = <<>>
    /\ \A d \in Descendants(u) : d.componentType = VIEW

StyledViewKept ==
    Built =>
        \A p \in FigmaNodes(StartNode(input[1])) : \A i \in DOMAIN p.children :
            (/\ p.type \in Frames
             /\ HasSuffix(p.name)
             /\ CapturedSuffix(p.name) \in {VIEW, CARD}
             /\ \E u \in TreeNodes(uiTree) : u.id = p.id
             /\ p.children[i].type \in Frames
             /\ HasSuffix(p.children[i].name)
             /\ CapturedSuffix(p.children[i].name) = VIEW
             /\ \E k \in DOMAIN p.children[i].fills :
                    p.children[i].fills[k].type = "SOLID" /\ p.children[i].fills[k].visible)
            => \E u \in TreeNodes(uiTree) : u.id = p.children[i].id

\* the TEXT nodes below a Figma node in document order
RECURSIVE TextsInOrder(_)
RECURSIVE TextsInOrderIn(_, _)
TextsInOrder(f) ==
    IF f.type = "TEXT" THEN <<f>> ELSE TextsInOrderIn(f.children, 1)

TextsInOrderIn(children, i) ==
    IF i > Len(children) THEN <<>>
    ELSE TextsInOrder(children[i]) \o TextsInOrderIn(children, i + 1)

\* slot holds the text of the n-th TEXT node of texts, or nothing if there
\* is no n-th; the text of a TEXT node is its characters, or else its name
SlotHolds(slot, texts, n) ==
    IF Len(texts) < n THEN slot = <<>>
    ELSE slot # <<>> /\ slot \in {texts[n].characters, texts[n].name}

\* C10: a node classified TOUCHABLE_CARD yields a CARD with a press action,
\* no children, the text of its first TEXT descendant as title and of its
\* second as subtitle.
TouchableCollapse ==
    Built =>
        \A u \in TreeNodes(uiTree) : \A f \in Sources(u) :
            (f.type # "TEXT" /\ HasSuffix(f.name)
             /\ CapturedSuffix(f.name) = TOUCHABLE_CARD) =>
                /\ u.componentType = CARD
                /\ u.action = "press"
                /\ u.children = <<>>
                /\ SlotHolds(u.title, TextsInOrder(f), 1)
                /\ SlotHolds(u.subtitle, TextsInOrder(f), 2)

-----------------------------------------------------------------------------
(* Properties of the sibling order                                          *)

\* the Figma node with the id of a UITree node
SourceOf(u) == CHOOSE f \in FigmaNodes(StartNode(input[1])) : f.id = u.id

\* the root component of the input
RootSource == SourceOf(uiTree)

\* the position of a child of the root component in the input
InputIndex(f) == CHOOSE i \in DOMAIN RootSource.children : RootSource.children[i].id = f.id

\* a comes visually before b: by x when the layout is horizontal, otherwise
\* by y, and by x when the two y differ by less than 2
VisuallyBefore(a, b, layoutMode) ==
    LET aBox == a.absoluteBoundingBox
        bBox == b.absoluteBoundingBox
        near == aBox.y - bBox.y < 2 /\ bBox.y - aBox.y < 2
    IN  /\ aBox.has /\ bBox.has
        /\ IF layoutMode = "HORIZONTAL" \/ near THEN aBox.x < bBox.x ELSE aBox.y < bBox.y

\* C11: the children of a container are its visible children in visual order:
\* no child comes after one that it is visually before, and the children
\* without a bounding box keep their input order among themselves.
VisualOrder ==
    Built =>
        LET kids == uiTree.children
        IN  /\ {kids[i].id : i \in DOMAIN kids}
                   = {c.id : c \in {d \in FigmaNodes(RootSource) \ {RootSource} : d.visible}}
            /\ \A i, j \in DOMAIN kids :
                   i < j =>
                       /\ ~VisuallyBefore(SourceOf(kids[j]), SourceOf(kids[i]),
                                           RootSource.layoutMode)
                       /\ (~kids[i].bounds.has /\ ~kids[j].bounds.has) =>
                              InputIndex(kids[i]) < InputIndex(kids[j])

-----------------------------------------------------------------------------
(* Properties of the emitted source                                         *)

\* the import lines: the source before the head of the screen template
ImportsOf(source) == SubSeq(source, 1, Len(source) - Len(JsxOf(source))
                                        - Len(ScreenHead) - Len(ScreenTail))

\* the symbols an emitted source can import by name
Symbols == {ImportOrder[i] : i \in DOMAIN ImportOrder} \cup {"LinearGradient", "Menu"}

\* sym is one of the names between the braces of an import line
Imported(sym, source) ==
    \/ Contains(ImportsOf(source), Chars(" " \o sym \o ","))
    \/ Contains(ImportsOf(source), Chars(" " \o sym \o " }"))

\* sym is the name of a JSX tag of the body
Tagged(sym, body) ==
    \E i \in 1..Len(body) :
        /\ i + Len(sym) <= Len(body)
        /\ SubSeq(body, i, i + Len(sym)) = <<"<">> \o Chars(sym)
        /\ (i + Len(sym) < Len(body) => body[i + Len(sym) + 1] \notin Letters)

\* C12: import minimality. The emitted source imports a symbol by name exactly
\* when the symbol is the name of a JSX tag of the body.
ImportMinimality ==
    Emitted => \A sym \in Symbols : Imported(sym, code) <=> Tagged(sym, JsxOf(code))

\* the number of places in the body where a line is the vertical spacer at
\* indentation level k
SpacersAt(body, k) ==
    LET line == <<"\n">> \o Repeat(Chars("  "), k) \o Chars("<Spacer size={12} />") \o <<"\n">>
    IN  Cardinality({i \in 1..Len(body) :
                        /\ i + Len(line) - 1 <= Len(body)
                        /\ SubSeq(body, i, i + Len(line) - 1) = line})

\* the VIEWs among the children of a node that are not its last child, when
\* the node's direction is vertical or unspecified
ViewsBeforeLast(node) ==
    IF node.layout.direction = "horizontal" THEN 0
    ELSE Cardinality({i \in DOMAIN node.children :
                         i < Len(node.children) /\ node.children[i].componentType = VIEW})

\* the component types whose children the emitter writes out
ChildEmitters == {VIEW, SCROLLABLE_VIEW, SAFEAREAVIEW, CARD, TOUCHABLE_CARD}

\* the spacers the rule asks for at level k, in the subtree of a node written
\* at level depth, counting the nodes of the given types
RECURSIVE SpacersDue(_, _, _, _)
RECURSIVE SpacersDueIn(_, _, _, _, _)
SpacersDue(node, depth, k, types) ==
    (IF depth + 1 = k /\ node.componentType \in types THEN ViewsBeforeLast(node) ELSE 0)
    + (IF node.componentType \in types THEN SpacersDueIn(node.children, 1, depth + 1, k, types)
       ELSE 0)

SpacersDueIn(children, i, depth, k, types) ==
    IF i > Len(children) THEN 0
    ELSE SpacersDue(children[i], depth, k, types) + SpacersDueIn(children, i + 1, depth, k, types)

\* the indentation levels at which children are written
Levels == (RootDepth + 1)..(RootDepth + 4)

\* the component types of the nodes of the tree
TypesOf(tree) == {u.componentType : u \in TreeNodes(tree)}

\* C13: the spacer rule. Every node with children in a vertical or unspecified
\* direction gets one vertical spacer per VIEW child that is not its last
\* child, and Spacer is imported whenever one is emitted.
SpacerRule ==
    Emitted =>
        /\ \A k \in Levels :
               SpacersAt(JsxOf(code), k) = SpacersDue(uiTree, RootDepth, k, TypesOf(uiTree))
        /\ (\E k \in Levels : SpacersAt(JsxOf(code), k) > 0) => Imported("Spacer", code)

\* C13 as the code has it: the rule holds for the nodes whose children the
\* emitter writes out (VIEW, SCROLLABLE_VIEW, SAFEAREAVIEW, CARD); the children
\* of any other node are not emitted and get no spacer.
SpacerRuleOfEmitters ==
    Emitted =>
        /\ \A k \in Levels :
               SpacersAt(JsxOf(code), k) = SpacersDue(uiTree, RootDepth, k, ChildEmitters)
        /\ (\E k \in Levels : SpacersAt(JsxOf(code), k) > 0) => Imported("Spacer", code)

\* C13 witness: a vertical container with three children, VIEWs first and
\* last, emitted with exactly one spacer at its children's level and one more
\* inside its first child.
SpacerWitness ==
    /\ Emitted
    /\ uiTree.componentType = VIEW
    /\ uiTree.layout.direction = "vertical"
    /\ Len(uiTree.children) = 3
    /\ uiTree.children[1].componentType = VIEW
    /\ uiTree.children[2].componentType = ICON
    /\ uiTree.children[3].componentType = VIEW
    /\ SpacersAt(JsxOf(code), RootDepth + 1) = 1
    /\ SpacersAt(JsxOf(code), RootDepth + 2) = 1
    /\ Imported("Spacer", code)

\* the signature of the emitted screen function binds navigation
BindsNavigation(source) ==
    Contains(source, Chars("function GeneratedScreen({ navigation }: any) {"))

\* the emitted screen function has the plain signature
PlainSignature(source) == Contains(source, Chars("function GeneratedScreen() {"))

\* the emitted source refers to the identifier navigation after the signature
RefersToNavigation(source) == Contains(source, Chars("navigation."))

\* the tree contains a HEADER with a back button
HasBackHeader(tree) ==
    \E u \in TreeNodes(tree) :
        u.componentType = HEADER /\ \E d \in Descendants(u) : d.componentType = BACKBUTTON

\* C14: the screen function binds navigation when the tree contains a HEADER
\* with a back button and has the plain signature otherwise; navigation is
\* referenced only when it is bound.
SignatureByBackButton ==
    Emitted =>
        /\ IF HasBackHeader(uiTree) THEN BindsNavigation(code) /\ ~PlainSignature(code)
           ELSE PlainSignature(code) /\ ~BindsNavigation(code)
        /\ RefersToNavigation(code) => BindsNavigation(code)

\* the nodes of the tree that the emitter writes out: the root, and the
\* children of every written node whose type has its children written
RECURSIVE EmittedNodes(_)
EmittedNodes(node) ==
    {node} \cup (IF node.componentType \in ChildEmitters
                 THEN UNION {EmittedNodes(node.children[i]) : i \in DOMAIN node.children}
                 ELSE {})

\* C14 as the code has it: the screen function always binds navigation, so
\* navigation is bound whenever the body refers to it, which it does exactly
\* when an emitted HEADER has a back button below it.
SignatureAlwaysBinds ==
    Emitted =>
        /\ BindsNavigation(code) /\ ~PlainSignature(code)
        /\ RefersToNavigation(code) => BindsNavigation(code)
        /\ RefersToNavigation(code)
               <=> \E u \in EmittedNodes(uiTree) : HasBackHeader(u) /\ u.componentType = HEADER

\* C14 witness: a HEADER with a back button has been emitted with
\* onBackPress={() => navigation.goBack()} under the binding signature.
BackHeaderWitness ==
    /\ Emitted
    /\ uiTree.componentType = HEADER
    /\ HasBackHeader(uiTree)
    /\ Contains(code, Chars("onBackPress={() => navigation.goBack()}"))
    /\ BindsNavigation(code)

\* C15: every emitted node whose componentType has no entry in the component
\* map is written as the comment {/* Unknown: TYPE */} followed by a <View
\* placeholder on the next line, and View is imported for it.
UnknownPlaceholder ==
    Emitted =>
        \A u \in EmittedNodes(uiTree) :
            u.componentType \notin MappedTypes =>
                /\ \E k \in RootDepth..(RootDepth + 4) :
                       Contains(JsxOf(code),
                                Repeat(Chars("  "), k) \o Chars("{/* Unknown: ")
                                \o u.componentType \o Chars(" */}\n")
                                \o Repeat(Chars("  "), k) \o Chars("<View"))
                /\ Imported("View", code)

-----------------------------------------------------------------------------
(* Frame properties                                                         *)

\* C16: the pipeline leaves its inputs unchanged: no step of a run changes the
\* Figma document it was given, and generating the code does not change the
\* UITree.
InputsUnchanged ==
    [][input' = input /\ (pc = "saved" => uiTree' = uiTree)]_vars

\* C16 witness: the code has been emitted for a tree whose children are in
\* another order than in the input and without its hidden child, and the
\* root of the input still has its three children in their order.
InputsUnchangedWitness ==
    /\ Emitted
    /\ Len(uiTree.children) = 2
    /\ uiTree.children[1].id = "k3"
    /\ uiTree.children[2].id = "k1"
    /\ [i \in 1..3 |-> RootSource.children[i].id] = <<"k1", "k2", "k3">>
    /\ input[1] \in OrderDocs
    /\ outputJson = <<uiTree>>

-----------------------------------------------------------------------------
(* Colour properties                                                        *)

\* #RRGGBB with upper-case hexadecimal digits
IsHexColor(s) ==
    /\ Len(s) = 7
    /\ s[1] = "#"
    /\ \A i \in 2..7 : \E d \in 0..15 : s[i] = HexDigit(d)

\* rgba(r, g, b, a): integer channels and an alpha with two decimals
IsRgbaColor(s) ==
    /\ Len(s) > 6
    /\ SubSeq(s, 1, 5) = <<"r", "g", "b", "a", "(">>
    /\ s[Len(s)] = ")"
    /\ \A i \in 6..(Len(s) - 1) : s[i] \in {Digit(d) : d \in 0..9} \cup {",", " ", "."}
    /\ s[Len(s) - 3] = "."

IsColorString(s) == IsHexColor(s) \/ IsRgbaColor(s)

StoredColors(u) == {u.styles.backgroundColor, u.styles.borderColor, u.styles.textColor}

\* the paint that fills.find / strokes.find selects has effective alpha 0
SelectsClearPaint(paints) ==
    FindSolid(paints) # 0
    /\ paints[FindSolid(paints)].color.a * paints[FindSolid(paints)].opacity = 0

\* C17: every colour stored in the styles of a UITree node (backgroundColor,
\* borderColor, textColor) is #RRGGBB in upper case or an rgba(...) string,
\* and a paint whose effective alpha is 0 leaves its style field absent.
StoredColorsAreColorStrings ==
    Built =>
        \A u \in TreeNodes(uiTree) :
            /\ \A c \in StoredColors(u) : c = <<>> \/ IsColorString(c)
            /\ \A f \in Sources(u) :
                   /\ SelectsClearPaint(f.fills) =>
                          u.styles.backgroundColor = <<>> /\ u.styles.textColor = <<>>
                   /\ SelectsClearPaint(f.strokes) => u.styles.borderColor = <<>>

-----------------------------------------------------------------------------
(* Name classifier properties                                               *)

\* the child of the root in a named document, and the node built from it
NamedSource == RootSource.children[1]

NamedNode == uiTree.children[1]

\* the parts of a name before and after its first underscore
BeforeUnderscore(name) == SliceTo(name, IndexOf(name, "_"))

AfterUnderscore(name) == SliceFrom(name, IndexOf(name, "_") + 1)

\* C18: the name of a frame is split at its first underscore; when the part
\* after it matches ^[A-Z_]+$ that part is the componentType and the part
\* before it the componentName, otherwise (no underscore, or any other
\* character in the suffix, a space included) the componentType is UNKNOWN;
\* the role is the original name in every case.
NameClassifier ==
    (Built /\ input[1] \in NamedDocs /\ NamedSource.type = "FRAME") =>
        /\ NamedNode.role = NamedSource.name
        /\ IF Includes(NamedSource.name, "_") /\ IsAllCaps(AfterUnderscore(NamedSource.name))
           THEN /\ NamedNode.componentType = AfterUnderscore(NamedSource.name)
                /\ NamedNode.componentName = BeforeUnderscore(NamedSource.name)
           ELSE NamedNode.componentType = UNKNOWN

\* C18 (amended): both parts are trimmed before they are used: when the part
\* after the first underscore, without its leading and trailing whitespace,
\* matches ^[A-Z_]+$, that trimmed part is the componentType and the trimmed
\* part before the underscore the componentName; otherwise the componentType
\* is UNKNOWN and the componentName the whole name, except that a vector is
\* then an ICON; the role is the original name in every case.
NameClassifierTrims ==
    (Built /\ input[1] \in NamedDocs) =>
        /\ NamedNode.role = NamedSource.name
        /\ IF Includes(NamedSource.name, "_")
              /\ IsAllCaps(Trim(AfterUnderscore(NamedSource.name)))
           THEN /\ NamedNode.componentType = Trim(AfterUnderscore(NamedSource.name))
                /\ NamedNode.componentName = Trim(BeforeUnderscore(NamedSource.name))
           ELSE /\ NamedNode.componentType =
                       IF NamedSource.type = "VECTOR" THEN ICON ELSE UNKNOWN
                /\ NamedNode.componentName = NamedSource.name

\* C18 witness: the frame "b_ A" has been built into a node of type A named b
NameClassifierWitness ==
    /\ Built
    /\ input[1] \in NamedDocs
    /\ NamedSource.type = "FRAME"
    /\ NamedSource.name = <<"b", "_", " ", "A">>
    /\ NamedNode.componentType = <<"A">>
    /\ NamedNode.componentName = <<"b">>
    /\ NamedNode.role = NamedSource.name

-----------------------------------------------------------------------------
(* Root search properties                                                   *)

\* the nodes under a node, itself included, in pre-order document order
RECURSIVE DocumentOrder(_)
RECURSIVE DocumentOrderIn(_, _)
DocumentOrder(node) == <<node>> \o DocumentOrderIn(node.children, 1)

DocumentOrderIn(children, i) ==
    IF i > Len(children) THEN <<>>
    ELSE DocumentOrder(children[i]) \o DocumentOrderIn(children, i + 1)

ProperAncestors(f, start) ==
    {g \in FigmaNodes(start) : g # f /\ f \in FigmaNodes(g)}

\* a frame that text rule T3 matches
IsTextFrame(f) ==
    /\ f.type \in Frames
    /\ Len(f.children) = 1
    /\ f.children[1].type = "TEXT"
    /\ ~Includes(f.name, "_")

IsDocumentType(f) == f.type \in {"DOCUMENT", "CANVAS", "PAGE"}

\* skipped: no component name and a document type and not a T3 frame
SkippedAsDocumentFrame(f) ==
    ~LooksLikeComponent(f.name) /\ IsDocumentType(f) /\ ~IsTextFrame(f)

\* skipped: neither a text nor a T3 frame, and no component name or a
\* document type
SkippedAsNonComponent(f) ==
    /\ f.type # "TEXT"
    /\ ~IsTextFrame(f)
    /\ ~LooksLikeComponent(f.name) \/ IsDocumentType(f)

\* the positions in document order of the nodes that are not skipped while
\* all their ancestors are
Found(Skipped(_), start) ==
    {i \in DOMAIN DocumentOrder(start) :
        /\ ~Skipped(DocumentOrder(start)[i])
        /\ \A g \in ProperAncestors(DocumentOrder(start)[i], start) : Skipped(g)}

\* the root is the first such node; without one the run fails
RootIsFirstFound(Skipped(_)) ==
    \E found \in {Found(Skipped, StartNode(input[1]))} :
        IF found = {} THEN pc = "failed" /\ error = NoRootComponent
        ELSE /\ Built
             /\ \E i \in found :
                    /\ \A j \in found : i <= j
                    /\ uiTree.id = DocumentOrder(StartNode(input[1]))[i].id

\* C19: generateUITree parses as root the first node in pre-order document
\* order that is not skipped, where a node is skipped exactly when its name
\* does not match ^[^_]+_[A-Z_]+$ and its type is DOCUMENT, CANVAS or PAGE
\* and it is not a frame matched by T3; children of skipped nodes are
\* searched, children of other nodes are not.
RootSearch ==
    (pc \notin {"idle", "loaded"} /\ input[1] \in NestedDocs) =>
        RootIsFirstFound(SkippedAsDocumentFrame)

\* C19 (amended): as C19, where a node is skipped exactly when it is not a
\* TEXT and not a frame matched by T3 and either its name does not match
\* ^[^_]+_[A-Z_]+$ or its type is DOCUMENT, CANVAS or PAGE.
RootSearchByName ==
    (pc \notin {"idle", "loaded"} /\ input[1] \in NestedDocs) =>
        RootIsFirstFound(SkippedAsNonComponent)

\* C19 witness: the canvas holds the frame "Frame 1" over a card and then the
\* frame "A_VIEW"; the frame "Frame 1" was skipped and its card is the root.
RootSearchWitness ==
    /\ Built
    /\ input[1] \in NestedDocs
    /\ Len(StartNode(input[1]).children[1].children) = 2
    /\ StartNode(input[1]).children[1].children[1].name = Chars("Frame 1")
    /\ StartNode(input[1]).children[1].children[1].type = "FRAME"
    /\ StartNode(input[1]).children[1].children[2].name = Chars("A_VIEW")
    /\ uiTree.id = "s1c"
    /\ uiTree.componentType = CARD

-----------------------------------------------------------------------------
(* Text wrapper properties                                                  *)

\* the root component of a generated document
WrapperSource == StartNode(input[1]).children[1].children[1]

\* the name without its last five characters, "_TEXT"
WithoutTextSuffix(name) == SubSeq(name, 1, Len(name) - 5)

\* C20: text rule T2. For a frame whose name ends with _TEXT all TEXT
\* descendants are collected in document order; with exactly one the result
\* is a single TEXT node named as the wrapper without its _TEXT suffix; with
\* none or several the result is a VIEW whose children are exactly those
\* TEXT nodes in document order.
TextWrapperRule ==
    (Built /\ input[1] \in GenDocs /\ WrapperSource.type \in Frames
           /\ EndsWith(WrapperSource.name, Chars("_TEXT"))) =>
        \E texts \in {TextsInOrder(WrapperSource)} :
            IF Len(texts) = 1
            THEN /\ uiTree.componentType = TEXT
                 /\ uiTree.componentName = WithoutTextSuffix(WrapperSource.name)
                 /\ uiTree.text = texts[1].characters
                 /\ uiTree.children = <<>>
            ELSE /\ uiTree.componentType = VIEW
                 /\ Len(uiTree.children) = Len(texts)
                 /\ \A i \in DOMAIN texts :
                        /\ uiTree.children[i].componentType = TEXT
                        /\ uiTree.children[i].id = texts[i].id
                        /\ uiTree.children[i].text = texts[i].characters

-----------------------------------------------------------------------------
(* Text hoisting properties                                                 *)

HoistingTypes == {VIEW, SCROLLABLE_VIEW, HEADER, TOPBAR, SAFEAREAVIEW}

\* the direct children of Figma type TEXT, in input order
DirectTexts(f) == SelectSeq(f.children, LAMBDA c : c.type = "TEXT")

\* u was built by parseLayoutNode from the frame f
LayoutBuilt(f, u) ==
    /\ f.type \in Frames
    /\ HasSuffix(f.name)
    /\ CapturedSuffix(f.name) \in HoistingTypes
    /\ u.componentType = CapturedSuffix(f.name)

\* C21: text hoisting. When a VIEW, SCROLLABLE_VIEW, HEADER, TOPBAR or
\* SAFEAREAVIEW is parsed, the characters of its first direct TEXT child
\* become the text of the parent, and no direct TEXT child is a node among
\* the children of the parent.
TextHoisting ==
    Built =>
        \A u \in TreeNodes(uiTree) : \A f \in Sources(u) :
            LayoutBuilt(f, u) =>
                /\ \A i \in DOMAIN u.children : \A j \in DOMAIN DirectTexts(f) :
                       u.children[i].id # DirectTexts(f)[j].id
                /\ u.text = IF DirectTexts(f) = <<>> THEN <<>>
                            ELSE DirectTexts(f)[1].characters

-----------------------------------------------------------------------------
(* Widget properties                                                        *)

\* the root frame of the input is classified as type
RootClassified(type) ==
    /\ RootSource.type \in Frames
    /\ HasSuffix(RootSource.name)
    /\ CapturedSuffix(RootSource.name) = type

HasVisibleStroke(f) == \E i \in DOMAIN f.strokes : f.strokes[i].visible

HasVisibleSolidFill(f) ==
    \E i \in DOMAIN f.fills : f.fills[i].visible /\ f.fills[i].type = "SOLID"

\* the body holds the attribute key="value"
HasAttribute(key, value) ==
    Contains(JsxOf(code), Chars(key \o "=\"" \o value \o "\""))

XOf(f) == IF f.absoluteBoundingBox.has THEN f.absoluteBoundingBox.x ELSE 0

\* classified ICON or SVG, a vector, or an instance named ...icon...
IsIconChild(f) ==
    \/ (HasSuffix(f.name) /\ CapturedSuffix(f.name) \in {ICON, SVG})
    \/ f.type = "VECTOR"
    \/ (f.type = "INSTANCE" /\ Contains(ToLowerCase(f.name), Chars("icon")))

\* the componentName the classifier gives a name
ClassifiedName(name) ==
    IF HasSuffix(name) THEN Trim(BeforeUnderscore(name)) ELSE name

\* C23: every visible direct child of a BUTTON that is an icon and not the
\* text node has its classified componentName in props.leftIcon when its x
\* is smaller than the x of the text, and in props.rightIcon otherwise.
ButtonIcons ==
    (Built /\ input[1] \in ButtonDocs) =>
        \A i \in 2..Len(RootSource.children) :
            \E c \in {RootSource.children[i]} :
                (c.visible /\ IsIconChild(c)) =>
                    IF XOf(c) < XOf(RootSource.children[1])
                    THEN uiTree.props.leftIcon = ClassifiedName(c.name)
                    ELSE uiTree.props.rightIcon = ClassifiedName(c.name)

\* the first visible solid fill with a colour is grey: its channels are
\* within 0.05 of each other
FirstSolidFillIsGrey(f) ==
    \E i \in DOMAIN f.fills :
        /\ f.fills[i].visible /\ f.fills[i].type = "SOLID" /\ f.fills[i].color.has
        /\ \A j \in 1..(i - 1) :
               ~(f.fills[j].visible /\ f.fills[j].type = "SOLID" /\ f.fills[j].color.has)
        /\ \A p, q \in {f.fills[i].color.r, f.fills[i].color.g, f.fills[i].color.b} :
               p - q < 5

HasVisibleDropShadow(f) ==
    \E i \in DOMAIN f.effects : f.effects[i].visible /\ f.effects[i].type = "DROP_SHADOW"

\* C25: a node emitted as <Card>, built from a CARD or from a TOUCHABLE_CARD,
\* has the variant elevated with a visible DROP_SHADOW effect, else outlined
\* with a visible stroke, else filled, and the emitted variant is one of
\* these three.
CardVariant ==
    (Emitted /\ (RootClassified(CARD) \/ RootClassified(TOUCHABLE_CARD))) =>
        \E variant \in {"elevated", "outlined", "filled"} :
            /\ variant = "elevated" <=> HasVisibleDropShadow(RootSource)
            /\ variant = "outlined" <=>
                   ~HasVisibleDropShadow(RootSource) /\ HasVisibleStroke(RootSource)
            /\ uiTree.componentType = CARD
            /\ Contains(JsxOf(code), Chars("<Card"))
            /\ HasAttribute("variant", variant)

\* the checked slot of a checkbox, the selected slot of a radio
ToggleSlot(u) == IF u.componentType = CHECKBOX THEN u.props.checked ELSE u.props.selected

HasChildNamed(f, name) == \E i \in DOMAIN f.children : f.children[i].name = Chars(name)

\* C26: a CHECKBOX or RADIO is not recursed into; a direct child named _TRUE
\* sets checked (selected for a radio) to true, one named _FALSE sets it to
\* false; the label is the text of the first direct TEXT child, also when
\* there are several.
ToggleRule ==
    (Built /\ (RootClassified(CHECKBOX) \/ RootClassified(RADIO))) =>
        /\ uiTree.componentType = CapturedSuffix(RootSource.name)
        /\ uiTree.children = <<>>
        /\ (HasChildNamed(RootSource, "_TRUE") /\ ~HasChildNamed(RootSource, "_FALSE"))
              => ToggleSlot(uiTree) = "true"
        /\ (HasChildNamed(RootSource, "_FALSE") /\ ~HasChildNamed(RootSource, "_TRUE"))
              => ToggleSlot(uiTree) = "false"
        /\ (DirectTexts(RootSource) # <<>> /\ DirectTexts(RootSource)[1].characters # <<>>)
              => uiTree.props.label = DirectTexts(RootSource)[1].characters

-----------------------------------------------------------------------------
(* Header properties                                                        *)

\* C27: for a HEADER built from a header frame the emitted title is the text
\* of the first TEXT descendant of the frame, a direct TEXT child included,
\* and showBackButton is true, with an onBackPress handler, exactly when the
\* header has a BACKBUTTON descendant.
HeaderEmission ==
    (Emitted /\ RootClassified(HEADER)) =>
        /\ uiTree.componentType = HEADER
        /\ TextsInOrder(RootSource) # <<>> =>
               Contains(JsxOf(code), Chars("title=\"")
                                     \o TextsInOrder(RootSource)[1].characters \o <<"\"">>)
        /\ IF HasBackHeader(uiTree)
           THEN /\ ~Contains(JsxOf(code), Chars("showBackButton={false}"))
                /\ Contains(JsxOf(code), Chars("showBackButton"))
                /\ Contains(JsxOf(code), Chars("onBackPress={"))
           ELSE /\ Contains(JsxOf(code), Chars("showBackButton={false}"))
                /\ ~Contains(JsxOf(code), Chars("onBackPress"))

-----------------------------------------------------------------------------
(* Flattening properties                                                    *)

\* the frame is parsed by parseLayoutNode or parseCardNode
ParsedByContainer(f) ==
    /\ f.type \in Frames
    /\ HasSuffix(f.name)
    /\ CapturedSuffix(f.name) \in HoistingTypes \cup {CARD}

\* a slot of the node or of a VIEW below it is filled, or a node below it is
\* not a VIEW
HasContent(u) ==
    \/ \E d \in TreeNodes(u) : d.text # <<>> \/ d.title # <<>> \/ d.subtitle # <<>>
    \/ \E d \in Descendants(u) : d.componentType # VIEW

\* the flattening step removes the parsed child
Removed(parsed) == parsed.componentType = VIEW /\ ~HasContent(parsed)

\* the children of f as parsed one by one, in input order, text children of
\* a layout container left out
ParsedOneByOne(f) ==
    [i \in DOMAIN SelectSeq(f.children,
                            LAMBDA c : CapturedSuffix(f.name) = CARD \/ c.type # "TEXT") |->
        parseFigmaNode(SelectSeq(f.children,
                                 LAMBDA c : CapturedSuffix(f.name) = CARD \/ c.type # "TEXT")[i])]

-----------------------------------------------------------------------------
(* Identity properties                                                      *)

\* the ids of the UITree nodes, in pre-order
RECURSIVE TreeIds(_)
TreeIds(u) == <<u.id>> \o Concat([i \in DOMAIN u.children |-> TreeIds(u.children[i])])

\* the ids of the Figma nodes, in document order
FigmaIds(doc) == [i \in DOMAIN DocumentOrder(doc) |-> DocumentOrder(doc)[i].id]

PairwiseDistinct(seq) == \A i, j \in DOMAIN seq : seq[i] = seq[j] => i = j

\* C29: every UITree node carries the id of a Figma node of the input and no
\* Figma node gives rise to two UITree nodes: when the Figma ids are pairwise
\* distinct, so are the ids of the UITree.
TreeIdsDistinct ==
    Built =>
        \E ids \in {TreeIds(uiTree)} : \E figmaIds \in {FigmaIds(StartNode(input[1]))} :
            /\ \A i \in DOMAIN ids : \E j \in DOMAIN figmaIds : ids[i] = figmaIds[j]
            /\ PairwiseDistinct(figmaIds) => PairwiseDistinct(ids)

\* C29 witness: a layout root over a text wrapper over two texts; the tree
\* has the root, the wrapper as a VIEW and one TEXT node for each text.
TreeIdsWitness ==
    /\ Built
    /\ PairwiseDistinct(FigmaIds(StartNode(input[1])))
    /\ RootSource.children # <<>>
    /\ RootSource.children[1].name = Chars("W_TEXT")
    /\ TreeIds(uiTree) = <<"r", "m", "k1", "k2">>
    /\ uiTree.children[1].componentType = VIEW
    /\ \A i \in 1..2 : uiTree.children[1].children[i].componentType = TEXT

-----------------------------------------------------------------------------
(* Text preservation properties                                             *)

\* the filled text slots of a UITree node
FilledSlots(u) == {u.text, u.title, u.subtitle} \ {<<>>}

\* the opening tags of the JSX that are not spacers
OpeningTags(s) ==
    {i \in 1..(Len(s) - 1) :
        /\ s[i] = "<"
        /\ s[i + 1] \in Letters
        /\ ~(i + 6 <= Len(s) /\ SubSeq(s, i + 1, i + 6) = Chars("Spacer"))}

\* the UITree the builder returned for the input
BuiltTree == generateUITree(input[1]).tree

\* every filled slot of every node of the tree appears, escaped, in the JSX
SlotsEmitted(tree) ==
    \A u \in TreeNodes(tree) : \A t \in FilledSlots(u) :
        Contains(JsxOf(code), escapeText(t))

\* the children of an emitted container are emitted: the JSX has an element
\* for every node reached from the root through containers
ChildrenEmitted(tree) ==
    tree.componentType \in ChildEmitters =>
        Cardinality(OpeningTags(JsxOf(code))) >= Cardinality(EmittedNodes(tree))

\* C30: no text recovered by the builder is lost by the emitter: every
\* filled text, title or subtitle slot of every UITree node appears,
\* escaped, in the emitted source, and every UITree child of an emitted
\* container is itself emitted.
NoTextLost ==
    Emitted => \E tree \in {BuiltTree} : SlotsEmitted(tree) /\ ChildrenEmitted(tree)

====
